---- MODULE Spec2Model ----
(***************************************************************************)
(* Model of the WeatherFlow UDP driver for weewx                           *)
(* (bin/user/weatherflowudp.py): the REST-to-archive conversion            *)
(* (parseRestPacket, mapToWeewxPacket, convertREST2weewx, ArchivePeriod     *)
(* and the accumulators), the battery mode calculator and the live loop    *)
(* (genLoopPackets).                                                       *)
(*                                                                         *)
(* Numbers.  Timestamps, strike counts, distances, directions and          *)
(* intervals are integers as in the program.  Every float-valued           *)
(* observation (temperature, pressure, wind, voltage, ...) is held in      *)
(* thousandths, so 18.8 is 18800 and 2.73 V is 2730.  A mean is held as    *)
(* the pair (wsum, sumtime) the accumulator divides at extraction.         *)
(***************************************************************************)
EXTENDS Integers, Sequences, FiniteSets, TLC

\* Python's None where a number may stand (an observation value, a routed
\* field, a voltage).  Every number of the program the model uses is >= 0.
None == -1

\* A Python reference that is None where an object may stand
\* (archivePeriod, _old_accumulator, a returned record).
Null == [null |-> TRUE]

\* A device slot of a combined REST row that holds no observation (None).
NoObs == << >>

\* weewx.METRICWX, the unit system tag of every routed record.
METRICWX == 17

(***************************************************************************)
(* Ordered dictionaries (Python dict, insertion ordered): a sequence of    *)
(* <<key, value>> pairs without duplicate keys.                            *)
(***************************************************************************)
DictKeys(d) == {d[i][1] : i \in 1..Len(d)}

DictHas(d, k) == \E i \in 1..Len(d) : d[i][1] = k

DictGet(d, k) == d[CHOOSE i \in 1..Len(d) : d[i][1] = k][2]

\* d[k] = v : an existing key keeps its position, a new key goes last.
DictSet(d, k, v) ==
    IF DictHas(d, k)
    THEN [i \in 1..Len(d) |-> IF d[i][1] = k THEN <<k, v>> ELSE d[i]]
    ELSE Append(d, <<k, v>>)

\* "for k, v in pairs: d[k] = v": every key of pairs gets the value of its
\* last pair; the keys d has not yet go last, in the order pairs first
\* names them.
DictUpdate(d, pairs) ==
    LET n == Len(pairs)
        Last(k) == CHOOSE i \in 1..n :
                       pairs[i][1] = k /\ \A j \in (i + 1)..n : pairs[j][1] # k
        indexed == [i \in 1..n |-> <<i, pairs[i][1]>>]
        IsNew(e) == /\ ~DictHas(d, e[2])
                    /\ \A j \in 1..(e[1] - 1) : pairs[j][1] # e[2]
        added == SelectSeq(indexed, IsNew)
    IN  [i \in 1..Len(d) |->
            IF \E j \in 1..n : pairs[j][1] = d[i][1]
            THEN <<d[i][1], pairs[Last(d[i][1])][2]>>
            ELSE d[i]]
        \o [i \in 1..Len(added) |-> <<added[i][2], pairs[Last(added[i][2])][2]>>]

\* A Python dict whose order plays no role (a routed packet, an archive
\* record) is a function from its keys; this is  f[k] = v.
Put(f, k, v) == [x \in (DOMAIN f) \cup {k} |-> IF x = k THEN v ELSE f[x]]

EmptyDict == [x \in {} |-> 0]

\* min(len(a), len(b)), the length zip() stops at.
Min(a, b) == IF a < b THEN a ELSE b

(***************************************************************************)
(* Observation record fields.                                              *)
(***************************************************************************)
fields(type) ==
    CASE type = "obs_air" ->
           <<"time_epoch", "station_pressure", "air_temperature",
             "relative_humidity", "lightning_strike_count",
             "lightning_strike_avg_distance", "battery", "report_interval">>
      [] type = "obs_sky" ->
           <<"time_epoch", "illuminance", "uv", "rain_accumulated", "wind_lull",
             "wind_avg", "wind_gust", "wind_direction", "battery",
             "report_interval", "solar_radiation",
             "local_day_rain_accumulation", "precipitation_type",
             "wind_sample_interval">>
      [] type = "rapid_wind" -> <<"time_epoch", "wind_speed", "wind_direction">>
      [] type = "evt_precip" -> <<"time_epoch">>
      [] type = "evt_strike" -> <<"time_epoch", "distance", "energy">>
      [] type = "obs_st" ->
           <<"time_epoch", "wind_lull", "wind_avg", "wind_gust", "wind_direction",
             "wind_sample_interval", "station_pressure", "air_temperature",
             "relative_humidity", "illuminance", "uv", "solar_radiation",
             "rain_accumulated", "precipitation_type",
             "lightning_strike_avg_distance", "lightning_strike_count",
             "battery", "report_interval">>

\* str.replace("-", "_") on the serial numbers the model uses.
ReplaceDash(s) ==
    CASE s = "ST-00000025" -> "ST_00000025"
      [] s = "AR-00004424" -> "AR_00004424"
      [] s = "SK-00001234" -> "SK_00001234"
      [] OTHER -> s

\* A flat-record key "<field>.<serial>.<type>" is the triple of its parts;
\* the unqualified key "time_epoch" is the 1-tuple.
FlatKey(field, serial, type) == <<field, serial, type>>

TimeEpochKey == <<"time_epoch">>

(***************************************************************************)
(* BatteryModeCalculator.  _list holds voltages in thousandths of a volt.  *)
(***************************************************************************)
RECURSIVE SumSeq(_)
SumSeq(s) == IF s = << >> THEN 0 ELSE Head(s) + SumSeq(Tail(s))

\* self._list[-5:]
LastFive(l) == IF Len(l) <= 5 THEN l ELSE SubSeq(l, Len(l) - 4, Len(l))

\* addVoltage(value): "if not value" drops None and 0.
addVoltage(list, value) ==
    IF value = None \/ value = 0
    THEN list
    ELSE LET appended == Append(list, value)
         IN  IF Len(appended) > 10 THEN Tail(appended) ELSE appended

\* A direction test that subtracts the newest five from the oldest five;
\* C28 does not hold for it.
isChargingReversed(list) ==
    IF Len(list) = 10
    THEN SumSeq(SubSeq(list, 1, 5)) - SumSeq(SubSeq(list, 6, 10)) > 50
    ELSE FALSE

\* A direction test that is met at the margin; C30 does not hold for it.
isChargingAtMargin(list) ==
    IF Len(list) = 10
    THEN SumSeq(SubSeq(list, 6, 10)) - SumSeq(SubSeq(list, 1, 5)) >= 50
    ELSE FALSE

\* __isCharging(): secondValue - firstValue > 0.05
isCharging(list) ==
    IF Len(list) = 10
    THEN SumSeq(SubSeq(list, 6, 10)) - SumSeq(SubSeq(list, 1, 5)) > 50
    ELSE FALSE

\* A getMode whose discharging table has modes 1 and 2 exchanged; C29
\* does not hold for it.
getModeExchanged(list) ==
    IF Len(list) = 0
    THEN None
    ELSE LET n == Len(LastFive(list))
             s == SumSeq(LastFive(list))
         IN  IF isCharging(list)
             THEN IF s >= 2455 * n THEN 0
                  ELSE IF s >= 2410 * n THEN 1
                  ELSE IF s >= 2375 * n THEN 2
                  ELSE 3
             ELSE IF s <= 2355 * n THEN 3
                  ELSE IF s <= 2390 * n THEN 1
                  ELSE IF s <= 2415 * n THEN 2
                  ELSE 0

\* getMode(): currentValue = sum(last five) / len(last five), compared with
\* the thresholds after multiplying both sides by the length.
getMode(list) ==
    IF Len(list) = 0
    THEN None
    ELSE LET n == Len(LastFive(list))
             s == SumSeq(LastFive(list))
         IN  IF isCharging(list)
             THEN IF s >= 2455 * n THEN 0
                  ELSE IF s >= 2410 * n THEN 1
                  ELSE IF s >= 2375 * n THEN 2
                  ELSE 3
             ELSE IF s <= 2355 * n THEN 3
                  ELSE IF s <= 2390 * n THEN 2
                  ELSE IF s <= 2415 * n THEN 1
                  ELSE 0

(***************************************************************************)
(* parseRestPacket.  A combined batch is device_ids, types and obs: one    *)
(* row per timestamp, one slot per device (an observation or NoObs).       *)
(***************************************************************************)
\* self._device_id_dict: REST device id -> serial number.
device_id_dict(device_id) ==
    CASE device_id = 1 -> "ST-00000025"
      [] device_id = 2 -> "AR-00004424"
      [] device_id = 3 -> "SK-00001234"

\* A zip that stops one field early; C14 does not hold for it.
ZipPairsShort(flds, values, serial, type) ==
    [i \in 1..(Min(Len(flds), Len(values)) - 1) |->
        <<FlatKey(flds[i], serial, type), values[i]>>]

\* zip(fields, observation) as the pairs (flat key, value).
ZipPairs(flds, values, serial, type) ==
    [i \in 1..Min(Len(flds), Len(values)) |->
        <<FlatKey(flds[i], serial, type), values[i]>>]

\* The zip() loop of an observation with the battery branch: the pairs it
\* assigns in order, and the calculator's list afterwards.  No schema of
\* fields names "battery" twice, so the branch runs at most once.
ZipObservation(flds, observation, serial, type, calc) ==
    LET plain == ZipPairs(flds, observation, serial, type)
        hits == {i \in 1..Len(plain) : flds[i] = "battery" /\ type = "obs_st"}
    IN  IF hits = {}
        THEN [pairs |-> plain, calc |-> calc]
        ELSE LET b == CHOOSE i \in hits : TRUE
                 c1 == addVoltage(calc, observation[b])
                 mode == getMode(c1)
             IN  [pairs |-> SubSeq(plain, 1, b)
                            \o (IF mode # None
                                THEN << <<FlatKey("battery_mode", serial, type),
                                          mode>> >>
                                ELSE << >>)
                            \o SubSeq(plain, b + 1, Len(plain)),
                  calc |-> c1]

\* The zip() loop of one observation of a REST row.  st is [packet, calc]:
\* the flat record and the calculator's list before the loop.
ParseRestFields(st, flds, observation, serial, type) ==
    LET zipped == ZipObservation(flds, observation, serial, type, st.calc)
    IN  [packet |-> DictUpdate(st.packet, zipped.pairs), calc |-> zipped.calc]

\* The loop over the device slots of one row, from slot pos on.
RECURSIVE ParseRestRow(_, _, _, _, _)
ParseRestRow(st, device_ids, types, observations, pos) ==
    IF pos > Len(observations)
    THEN st
    ELSE IF observations[pos] = NoObs
    THEN ParseRestRow(st, device_ids, types, observations, pos + 1)
    ELSE LET serial == ReplaceDash(device_id_dict(device_ids[pos]))
             withTime == [st EXCEPT !.packet =
                             DictSet(@, TimeEpochKey, observations[pos][1])]
         IN  ParseRestRow(
                 ParseRestFields(withTime, fields(types[pos]), observations[pos],
                                 serial, types[pos]),
                 device_ids, types, observations, pos + 1)

\* parseRestPacket for one row of pkt['obs']: the flat record it yields and
\* the calculator's list afterwards.
parseRestPacket(device_ids, types, observations, calc) ==
    ParseRestRow([packet |-> << >>, calc |-> calc],
                 device_ids, types, observations, 1)

(***************************************************************************)
(* parseUDPPacket.  A datagram is the ordered dict json.loads returned.    *)
(***************************************************************************)
\* "for key in pkt: packet[key + '.' + pkt_label] = pkt[key]"
CopyTopLevel(pkt, serial, type) ==
    DictUpdate(<< >>, [i \in 1..Len(pkt) |->
                          <<FlatKey(pkt[i][1], serial, type), pkt[i][2]>>])

\* The zip() loop of a rapid_wind or event packet.
ZipFields(packet, flds, values, serial, type) ==
    DictUpdate(packet, ZipPairs(flds, values, serial, type))

\* The zip() loop of an observation packet (lines 375-381); st is
\* [packet, calc] before the loop.
ParseObsFields(st, flds, observation, serial, type) ==
    LET zipped == ZipObservation(flds, observation, serial, type, st.calc)
    IN  [packet |-> DictUpdate(st.packet, zipped.pairs), calc |-> zipped.calc]

\* The payload a recognised type is read from, and whether reading its
\* time raises (the key is missing or the array is empty).
PayloadKey(type) ==
    CASE type \in {"obs_air", "obs_sky", "obs_st"} -> "obs"
      [] type = "rapid_wind" -> "ob"
      [] type \in {"evt_strike", "evt_precip"} -> "evt"
      [] type \in {"device_status", "hub_status"} -> "timestamp"
      [] OTHER -> "none"

PayloadRaises(pkt, type) ==
    /\ PayloadKey(type) # "none"
    /\ \/ ~DictHas(pkt, PayloadKey(type))
       \/ /\ PayloadKey(type) # "timestamp"
          /\ Len(DictGet(pkt, PayloadKey(type))) = 0
       \/ /\ PayloadKey(type) = "obs"
          /\ Len(DictGet(pkt, "obs")[1]) = 0

\* pkt['type'][0:2] == 'X_' on the types the model uses.
IsDebugType(type) == type \in {"X_debug"}

\* A decoder without the test of line 366: it labels and copies the
\* top-level keys of whatever it is given; C13 does not hold for it.
parseUDPPacketUnguarded(pkt, calc, t) ==
    LET type == IF DictHas(pkt, "type") THEN DictGet(pkt, "type") ELSE ""
        serial == IF DictHas(pkt, "serial_number")
                  THEN ReplaceDash(DictGet(pkt, "serial_number")) ELSE ""
    IN  [packet |-> CopyTopLevel(pkt, serial, type), calc |-> calc, raised |-> FALSE]

\* parseUDPPacket(pkt, calculator) at wall-clock time t: the flat record,
\* the calculator's list afterwards, and whether an exception left it.
parseUDPPacket(pkt, calc, t) ==
    IF ~DictHas(pkt, "serial_number") \/ ~DictHas(pkt, "type")
    THEN [packet |-> << >>, calc |-> calc, raised |-> FALSE]
    ELSE LET type == DictGet(pkt, "type")
             serial == ReplaceDash(DictGet(pkt, "serial_number"))
             copied == CopyTopLevel(pkt, serial, type)
         IN  IF PayloadRaises(pkt, type)
             THEN [packet |-> copied, calc |-> calc, raised |-> TRUE]
             ELSE IF PayloadKey(type) = "obs"
             THEN LET obs0 == DictGet(pkt, "obs")[1]
                      zipped == ParseObsFields(
                                    [packet |-> DictSet(copied, TimeEpochKey, obs0[1]),
                                     calc |-> calc],
                                    fields(type), obs0, serial, type)
                  IN  [packet |-> zipped.packet, calc |-> zipped.calc,
                       raised |-> FALSE]
             ELSE IF PayloadKey(type) \in {"ob", "evt"}
             THEN LET values == DictGet(pkt, PayloadKey(type))
                  IN  [packet |-> ZipFields(DictSet(copied, TimeEpochKey, values[1]),
                                            fields(type), values, serial, type),
                       calc |-> calc, raised |-> FALSE]
             ELSE IF PayloadKey(type) = "timestamp"
             THEN [packet |-> DictSet(copied, TimeEpochKey, DictGet(pkt, "timestamp")),
                   calc |-> calc, raised |-> FALSE]
             ELSE IF IsDebugType(type)
             THEN [packet |-> DictSet(copied, TimeEpochKey, t),
                   calc |-> calc, raised |-> FALSE]
             ELSE [packet |-> copied, calc |-> calc, raised |-> FALSE]

(***************************************************************************)
(* mapToWeewxPacket.                                                       *)
(***************************************************************************)
NoKey == << >>

\* The elif chain of the key scan: which of the seven key variables the
\* key is assigned to.  str.find works on "<field>.<serial>.<type>".
KeyCategory(key) ==
    LET field == key[1]
        qualified == Len(key) = 3
    IN  IF field = "lightning_strike_count" THEN "lightning_strike_count"
        ELSE IF field = "lightning_strike_avg_distance"
             THEN "lightning_strike_avg_distance"
        ELSE IF field = "wind_avg" THEN "wind_avg"
        ELSE IF field = "wind_speed" THEN "wind_speed"
        ELSE IF field = "wind_direction" THEN "wind_direction"
        ELSE IF qualified /\ key[3] = "evt_strike"
             THEN IF field = "time_epoch" THEN "evt_time_epoch"
                  ELSE IF field = "distance" THEN "evt_distance"
                  ELSE "other"
        ELSE "other"

\* The value the scan leaves in a key variable: the last key of the
\* category in iteration order, or NoKey.
ScanKey(pkt, category) ==
    LET hits == {i \in 1..Len(pkt) : KeyCategory(pkt[i][1]) = category}
    IN  IF hits = {} THEN NoKey
        ELSE pkt[CHOOSE i \in hits : \A j \in hits : j <= i][1]

\* round(x, 2) == 0.00 for x >= 0 held in thousandths.
RoundsToZero(x) == x < 5

\* Lines 317-321: no strike, so the distance is None.  The corrections
\* assign values only, so each finds the keys the scan of lines 300-315 left.
CorrectDistance(pkt) ==
    LET count_key == ScanKey(pkt, "lightning_strike_count")
        distance_key == ScanKey(pkt, "lightning_strike_avg_distance")
    IN  IF count_key # NoKey /\ distance_key # NoKey /\ DictGet(pkt, count_key) = 0
        THEN DictSet(pkt, distance_key, None)
        ELSE pkt

\* Lines 323-328 (wind_avg) and 330-335 (wind_speed): no wind, so the
\* direction is None.
CorrectDirection(pkt, category) ==
    LET wind_key == ScanKey(pkt, category)
        wind_direction_key == ScanKey(pkt, "wind_direction")
    IN  IF wind_key # NoKey /\ wind_direction_key # NoKey
           /\ DictGet(pkt, wind_key) # None
           /\ RoundsToZero(DictGet(pkt, wind_key))
        THEN DictSet(pkt, wind_direction_key, None)
        ELSE pkt

\* "Correct 0 values where they should be None": pkt after lines 317-335.
CorrectZeroValues(pkt) ==
    CorrectDirection(CorrectDirection(CorrectDistance(pkt), "wind_avg"), "wind_speed")

\* A strip that removes either suffix on either transport; C17 does not
\* hold for it.
StripLabelAny(label, isRest) ==
    IF Len(label) = 4 THEN SubSeq(label, 1, 3) ELSE label

\* A routing label "<field>.<device>.<type>[.rest|.udp]" is the tuple of
\* its parts.  Lines 339-342: strip the suffix that names this transport.
StripLabel(label, isRest) ==
    IF Len(label) = 4 /\ label[4] = "rest" /\ isRest THEN SubSeq(label, 1, 3)
    ELSE IF Len(label) = 4 /\ label[4] = "udp" /\ ~isRest THEN SubSeq(label, 1, 3)
    ELSE label

\* label.replace("-", "_")
LabelKey(label) == [i \in 1..Len(label) |->
                       IF i = 2 THEN ReplaceDash(label[i]) ELSE label[i]]

\* The inner loop over the labels of one canonical field: the labels whose
\* key pkt has.  Each assigns packet[pkt_weewx], so the last one stays.
RouteLabels(pkt, labels, isRest) ==
    {j \in 1..Len(labels) : DictHas(pkt, LabelKey(StripLabel(labels[j], isRest)))}

\* The loop over sensor_map.items(): packet after it.  sensor_map is a
\* dict, so no canonical field appears twice.
RouteFields(packet, pkt, sensor_map, isRest) ==
    LET routed == {i \in 1..Len(sensor_map) :
                      RouteLabels(pkt, sensor_map[i][2], isRest) # {}}
        Value(i) ==
            LET hits == RouteLabels(pkt, sensor_map[i][2], isRest)
                j == CHOOSE x \in hits : \A y \in hits : y <= x
            IN  DictGet(pkt, LabelKey(StripLabel(sensor_map[i][2][j], isRest)))
    IN  [k \in (DOMAIN packet) \cup {sensor_map[i][1] : i \in routed} |->
            IF \E i \in routed : sensor_map[i][1] = k
            THEN Value(CHOOSE i \in routed : sensor_map[i][1] = k)
            ELSE packet[k]]

\* Lines 282-290: the packet with dateTime, usUnits and interval.
SeedPacket(pkt, isRest, interval) ==
    LET seeded == IF DictHas(pkt, TimeEpochKey)
                  THEN Put(Put(EmptyDict, "dateTime", DictGet(pkt, TimeEpochKey)),
                           "usUnits", METRICWX)
                  ELSE EmptyDict
    IN  IF isRest THEN Put(seeded, "interval", interval) ELSE seeded

\* Line 348: None * 60 raises TypeError.
RainRaises(packet, generateRainRate) ==
    generateRainRate /\ "rain" \in DOMAIN packet /\ packet["rain"] = None

\* Lines 347-348: add rainRate.
AddRainRate(packet, generateRainRate) ==
    IF generateRainRate /\ "rain" \in DOMAIN packet /\ packet["rain"] # None
    THEN Put(packet, "rainRate", packet["rain"] * 60)
    ELSE packet

\* Lines 351-360: add lightningPerTimestamp for a strike event.
AddLightning(packet, pkt) ==
    LET evt_time_key == ScanKey(pkt, "evt_time_epoch")
        evt_distance_key == ScanKey(pkt, "evt_distance")
    IN  IF evt_time_key # NoKey /\ evt_distance_key # NoKey
        THEN Put(packet, "lightningPerTimestamp",
                 [json |-> [datetime |-> DictGet(pkt, evt_time_key),
                            lightning_distance |-> DictGet(pkt, evt_distance_key),
                            lightning_strike_count |-> 1]])
        ELSE packet

\* Lines 346-362 for the packet the sensor-map loop left: the result of
\* the call, pkt as the call leaves it, and whether an exception left the
\* call (packet is then what was built so far).
RoutedResult(routed, corrected, generateRainRate) ==
    [packet |-> AddLightning(AddRainRate(routed, generateRainRate), corrected),
     pkt |-> corrected,
     raised |-> RainRaises(routed, generateRainRate)]

\* Lines 337-362 for pkt after the corrections.
RouteCorrected(corrected, sensor_map, isRest, interval, generateRainRate) ==
    RoutedResult(RouteFields(SeedPacket(corrected, isRest, interval), corrected,
                             sensor_map, isRest),
                 corrected, generateRainRate)

\* A router that copies the fields before it corrects the zero values;
\* C18 does not hold for it.
mapToWeewxPacketRouteFirst(pkt, sensor_map, isRest, interval, generateRainRate) ==
    RoutedResult(RouteFields(SeedPacket(pkt, isRest, interval), pkt, sensor_map, isRest),
                 CorrectZeroValues(pkt), generateRainRate)

\* mapToWeewxPacket: the routed packet, pkt as the call leaves it, and
\* whether an exception left the call.
mapToWeewxPacket(pkt, sensor_map, isRest, interval, generateRainRate) ==
    RouteCorrected(CorrectZeroValues(pkt), sensor_map, isRest, interval,
                   generateRainRate)

(***************************************************************************)
(* weeutil.weeutil.startOfInterval and the weewx accumulator, as           *)
(* convertREST2weewx and ArchivePeriod use them.                           *)
(***************************************************************************)
\* startOfInterval(time_ts, interval): the start of the archive interval
\* time_ts belongs to; a time on a boundary belongs to the interval it ends.
startOfInterval(time_ts, interval) ==
    LET start_interval_ts == (time_ts \div interval) * interval
    IN  IF time_ts = start_interval_ts
        THEN start_interval_ts - interval
        ELSE start_interval_ts

\* ScalarStats before any value was added.
ZeroStats == [sum |-> 0, count |-> 0, wsum |-> 0, sumtime |-> 0]

\* LightningAccum(TimeSpan(start, stop)): an empty accumulator.  recs is
\* the history of the records added, kept for the properties only.
LightningAccum(start, stop) ==
    [start |-> start, stop |-> stop, unit_system |-> None,
     stats |-> EmptyDict, recs |-> << >>]

\* bool(accumulator): Accum is a dict, false while it holds no type.
AccumTruthy(acc) == acc # Null /\ DOMAIN acc.stats # {}

\* A timespan that excludes its stop; C4 does not hold for it.
OutOfSpanOpenEnd(acc, record) ==
    ~(acc.start < record["dateTime"] /\ record["dateTime"] < acc.stop)

\* TimeSpan.includesArchiveTime: start < ts <= stop; addRecord raises
\* OutOfSpan when it does not hold.
OutOfSpan(acc, record) ==
    ~(acc.start < record["dateTime"] /\ record["dateTime"] <= acc.stop)

\* ScalarStats.addSum(val, weight): None adds nothing.
addSum(st, val, weight) ==
    IF val = None
    THEN st
    ELSE [sum |-> st.sum + val, count |-> st.count + 1,
          wsum |-> st.wsum + val * weight, sumtime |-> st.sumtime + weight]

\* A distance weight that ignores the strike count; C8 does not hold for it.
LightningWeightPlain(record, obs_type, weight) == weight

\* LightningAccum.add_lightning_distance_value: the weight add_value is
\* called with.

add_lightning_distance_value(record, obs_type, weight) ==
    IF "lightning_strike_count" \in DOMAIN record /\ obs_type = "lightning_distance"
    THEN weight * record["lightning_strike_count"]
    ELSE weight

\* The types of a record that get statistics: dateTime has the noop adder,
\* usUnits the check_units adder.
StatTypes(record) == (DOMAIN record) \ {"dateTime", "usUnits"}

\* JSONAccum.add_json / JSONStats.addJsonToArray.
add_json(st, val) == [json_array |-> Append(st.json_array, val)]

\* One type's statistics after Accum.addRecord(record, weight = 1).
AddType(stats, record, obs_type) ==
    IF obs_type = "lightningPerTimestamp"
    THEN add_json(IF obs_type \in DOMAIN stats THEN stats[obs_type]
                  ELSE [json_array |-> << >>],
                  record[obs_type])
    ELSE addSum(IF obs_type \in DOMAIN stats THEN stats[obs_type] ELSE ZeroStats,
                record[obs_type],
                add_lightning_distance_value(record, obs_type, 1))

\* Accum.addRecord for a record inside the timespan.
AccumAddRecord(acc, record) ==
    [acc EXCEPT
       !.unit_system = record["usUnits"],
       !.stats = [t \in (DOMAIN acc.stats) \cup StatTypes(record) |->
                     IF t \in StatTypes(record)
                     THEN AddType(acc.stats, record, t)
                     ELSE acc.stats[t]],
       !.recs = Append(@, record)]

\* The mean an extractor returns: wsum / sumtime, or None without a value.
NoAvg == [wsum |-> 0, sumtime |-> 0]

Avg(st) == IF st.count = 0 THEN NoAvg ELSE [wsum |-> st.wsum, sumtime |-> st.sumtime]

\* The extractor of one type: sum for the counting field, the JSON array
\* for the JSON type, the mean otherwise.
Extract(st, obs_type) ==
    IF obs_type = "lightning_strike_count"
    THEN (IF st.count = 0 THEN None ELSE st.sum)
    ELSE IF obs_type = "lightningPerTimestamp"
    THEN [json |-> st.json_array]
    ELSE Avg(st)

\* JSONAccum.extract_json_array writes no key for an empty array.
Extracted(acc) ==
    {t \in DOMAIN acc.stats :
        t = "lightningPerTimestamp" => Len(acc.stats[t].json_array) > 0}

\* Accum.getRecord(): dateTime is the end of the timespan.
AccumGetRecord(acc) ==
    [t \in {"dateTime", "usUnits"} \cup Extracted(acc) |->
        IF t = "dateTime" THEN acc.stop
        ELSE IF t = "usUnits" THEN acc.unit_system
        ELSE Extract(acc.stats[t], t)]

(***************************************************************************)
(* ArchivePeriod.  t is int(time.time()) at the call.                      *)
(***************************************************************************)
\* The end of a new window: clipped to the wall clock when it lies ahead.
ClipToNow(end, t) == IF end > t THEN t ELSE end

\* __init__ (lines 937-946).
ArchivePeriodInit(start_archive_period_ts, interval, delay, t) ==
    LET end == ClipToNow(start_archive_period_ts + interval, t)
    IN  [start_archive_period_ts |-> start_archive_period_ts,
         archive_interval |-> interval,
         archive_delay |-> delay,
         end_archive_period_ts |-> end,
         end_archive_delay_ts |-> end + delay,
         accumulator |-> LightningAccum(start_archive_period_ts, end),
         old_accumulator |-> Null]

\* A roll that drops the closed accumulator instead of keeping it as the
\* previous one; C1 does not hold for it.
startNextArchiveIntervalDrop(self, start_archive_period_ts, t) ==
    LET end == start_archive_period_ts + self.archive_interval
    IN  [self EXCEPT
           !.start_archive_period_ts = start_archive_period_ts,
           !.end_archive_period_ts = end,
           !.end_archive_delay_ts = end + self.archive_delay,
           !.old_accumulator = Null,
           !.accumulator = LightningAccum(start_archive_period_ts, end)]

\* startNextArchiveInterval (lines 948-956).  Line 952 assigns the clipped
\* end to the local name self_end_archive_period_ts, so the attribute keeps
\* start + interval.
startNextArchiveInterval(self, start_archive_period_ts, t) ==
    LET end == start_archive_period_ts + self.archive_interval
    IN  [self EXCEPT
           !.start_archive_period_ts = start_archive_period_ts,
           !.end_archive_period_ts = end,
           !.end_archive_delay_ts = end + self.archive_delay,
           !.old_accumulator = self.accumulator,
           !.accumulator = LightningAccum(start_archive_period_ts, end)]

\* An addRecord that accumulates nothing; C32 does not hold for it.
addRecordNothing(self, record) == self

\* addRecord (lines 958-959), for a record the accumulator accepts.
addRecord(self, record) ==
    [self EXCEPT !.accumulator = AccumAddRecord(@, record)]

\* A getPreviousRecord that keeps the previous accumulator; C6 does not
\* hold for it.
getPreviousRecordKeep(self) ==
    IF AccumTruthy(self.old_accumulator)
    THEN [record |-> AccumGetRecord(self.old_accumulator), self |-> self]
    ELSE [record |-> Null, self |-> self]

\* getPreviousRecord (lines 961-965): what it returns and the object after.
getPreviousRecord(self) ==
    IF AccumTruthy(self.old_accumulator)
    THEN [record |-> AccumGetRecord(self.old_accumulator),
          self |-> [self EXCEPT !.old_accumulator = Null]]
    ELSE [record |-> Null, self |-> self]

\* getRecord (lines 967-968).
getRecord(self) ==
    [record |-> AccumGetRecord(self.accumulator), self |-> self]

(***************************************************************************)
(* State.                                                                  *)
(***************************************************************************)
VARIABLES
    now,                         \* int(time.time()), the wall clock
    storm_ts,                    \* the weather: when the thunderstorm arrives
    driver,                      \* the driver's configuration attributes
    calculator,                  \* BatteryModeCalculator._list
    rest_pc,                     \* convertREST2weewx: "loop", "done", "raised"
    rows_left,                   \* rows of packet['obs'] still to iterate
    archivePeriod,               \* the local archivePeriod (Null or object)
    lightningPerTimestampArray,  \* the local list of lightning entries
    yielded,                     \* archive records yielded so far
    yielded_recs,                \* per yielded record: the records accumulated
    windows,                     \* log of ArchivePeriod() / startNext... calls
    last_call,                   \* the last getPreviousRecord / getRecord call
    weatherflowArchiveAccum,     \* the module's global of that name (line 276)
    loop_pc,                     \* genLoopPackets: "idle", "loop", "raised"
    last_loop_timestamp,         \* the local last_loop_timestamp
    loop_last,                   \* the last datagram handled and its outcome
    udp_pc,                      \* gen_udp_packets: "idle", "loop", "raised"
    udp_left,                    \* datagrams the socket will still deliver
    udp_yielded,                 \* what gen_udp_packets yielded so far
    probe,                       \* a function under study: its inputs and result
    wf                           \* readDataFromWF: its arguments and locals

rest_vars == <<rest_pc, rows_left, archivePeriod, lightningPerTimestampArray,
               yielded, yielded_recs, windows, last_call, weatherflowArchiveAccum>>

loop_vars == <<loop_pc, last_loop_timestamp, loop_last>>

udp_vars == <<udp_pc, udp_left, udp_yielded>>

vars == <<now, storm_ts, driver, calculator, rest_pc, rows_left, archivePeriod,
          lightningPerTimestampArray, yielded, yielded_recs, windows, last_call,
          weatherflowArchiveAccum, loop_pc, last_loop_timestamp, loop_last, udp_pc, udp_left, udp_yielded,
          probe, wf>>

(***************************************************************************)
(* Bounds and inputs.                                                      *)
(***************************************************************************)
\* Rows of one combined batch.
MaxRows == 3

\* The wall clock runs from NowStart up to MaxNow.
MaxNow == 5

NowStart == MaxNow - 1

\* archive_interval and archive_delay of the small configurations, seconds.
ArchiveIntervals == {3}

ArchiveDelays == {2}

\* The combined batch of one Tempest device.
batch_device_ids == <<1>>

batch_types == <<"obs_st">>

\* self._sensor_map: a configured sensor map for the Tempest device.
sensor_map ==
    << <<"outTemp", << <<"air_temperature", "ST-00000025", "obs_st">> >> >>,
       <<"pressure", << <<"station_pressure", "ST-00000025", "obs_st">> >> >>,
       <<"lightning_strike_count",
            << <<"lightning_strike_count", "ST-00000025", "obs_st">> >> >>,
       <<"lightning_distance",
            << <<"lightning_strike_avg_distance", "ST-00000025", "obs_st">> >> >>,
       <<"windSpeed", << <<"wind_speed", "ST-00000025", "rapid_wind", "udp">>,
                         <<"wind_avg", "ST-00000025", "obs_st", "rest">> >> >>,
       <<"windDir", << <<"wind_direction", "ST-00000025", "rapid_wind", "udp">>,
                       <<"wind_direction", "ST-00000025", "obs_st", "rest">> >> >> >>

\* An obs_st observation: the 18 values of fields("obs_st") in order.
ObsSt(time_epoch, wind_avg, wind_direction, pressure, temperature, distance, strikes) ==
    <<time_epoch, 0, wind_avg, wind_avg, wind_direction, 3, pressure, temperature,
      45000, 26000, 0, 0, 0, 0, distance, strikes, 2730, 1>>

\* What the station measured at time ts, the same whenever it is asked:
\* <<strike count, average distance>> is <<0, 0>> before the storm (no
\* strike comes with distance 0), three strikes at 20 km when it arrives
\* and one strike at 10 km afterwards; the temperature rises by 0.1 a second.
StrikeReport(ts) ==
    IF ts < storm_ts THEN <<0, 0>>
    ELSE IF ts = storm_ts THEN <<3, 20>>
    ELSE <<1, 10>>

Observed(ts) ==
    ObsSt(ts, 0, 0, 964000, 18000 + 100 * ts, StrikeReport(ts)[2], StrikeReport(ts)[1])

\* The rows a batch may hold at wall-clock time t: the device's slot is
\* empty, or holds the observation of a time not after t.
RestRows(t) == {<<NoObs>>} \cup {<<Observed(ts)>> : ts \in 1..t}

(***************************************************************************)
(* convertREST2weewx (lines 804-858) over one combined batch.              *)
(***************************************************************************)
\* The entry line 824-829 appends for a record with strikes.
LightningDict(m3) ==
    [datetime |-> m3["dateTime"],
     lightning_distance |-> m3["lightning_distance"],
     lightning_strike_count |-> m3["lightning_strike_count"]]

\* One window opening, logged for the properties.
WindowEvent(cause, m3, before, after) ==
    [cause |-> cause, ts |-> m3["dateTime"], now |-> now,
     prev_start |-> IF before = Null THEN None ELSE before.start_archive_period_ts,
     prev_end |-> IF before = Null THEN None ELSE before.end_archive_period_ts,
     start |-> after.start_archive_period_ts,
     end |-> after.end_archive_period_ts,
     span_end |-> after.accumulator.stop]

\* One method call on the ArchivePeriod, logged for the properties: the
\* object before, what the call returned and the object after.
Call(method, before, result) ==
    [method |-> method, before |-> before,
     record |-> result.record, after |-> result.self]

NoCall == [method |-> "none"]

\* The loop body for a routed record m3 with len(m3) > 3.
ConvertRecord(m3) ==
    LET start == startOfInterval(m3["dateTime"], driver.archive_interval)
        \* lines 814-816
        ap0 == IF archivePeriod = Null
               THEN ArchivePeriodInit(start, driver.archive_interval,
                                      driver.archive_delay, now)
               ELSE archivePeriod
        w0 == IF archivePeriod = Null
              THEN Append(windows, WindowEvent("init", m3, Null, ap0))
              ELSE windows
        \* lines 818-819
        byDelay == m3["dateTime"] >= ap0.end_archive_delay_ts
        ap1 == IF byDelay THEN startNextArchiveInterval(ap0, start, now) ELSE ap0
        w1 == IF byDelay THEN Append(w0, WindowEvent("delay", m3, ap0, ap1)) ELSE w0
        \* lines 821-831
        hasCount == "lightning_strike_count" \in DOMAIN m3
        raises == hasCount /\ m3["lightning_strike_count"] = None
        lpa == IF hasCount /\ m3["lightning_strike_count"] > 0
                  /\ "lightning_distance" \in DOMAIN m3
               THEN Append(lightningPerTimestampArray, LightningDict(m3))
               ELSE lightningPerTimestampArray
        \* lines 836-842
        bySpan == OutOfSpan(ap1.accumulator, m3)
        ap2 == IF bySpan THEN startNextArchiveInterval(ap1, start, now) ELSE ap1
        w2 == IF bySpan THEN Append(w1, WindowEvent("span", m3, ap1, ap2)) ELSE w1
        ap3 == addRecord(ap2, m3)
        \* lines 844-849
        prev == getPreviousRecord(ap3)
    IN  IF raises
        THEN /\ rest_pc' = "raised"
             /\ archivePeriod' = ap1
             /\ windows' = w1
             /\ UNCHANGED <<lightningPerTimestampArray, yielded, yielded_recs,
                            last_call, weatherflowArchiveAccum>>
        ELSE /\ rest_pc' = rest_pc
             /\ last_call' = Call("getPreviousRecord", ap3, prev)
             /\ archivePeriod' = prev.self
             /\ windows' = w2
             /\ lightningPerTimestampArray' = lpa
             /\ yielded' = IF prev.record # Null
                           THEN Append(yielded, prev.record) ELSE yielded
             /\ yielded_recs' = IF prev.record # Null
                                THEN Append(yielded_recs, ap3.old_accumulator.recs)
                                ELSE yielded_recs
             \* line 848, after getPreviousRecord has returned
             /\ weatherflowArchiveAccum' = IF prev.record # Null
                                           THEN prev.self.old_accumulator
                                           ELSE weatherflowArchiveAccum

\* One iteration of "for observation in parseRestPacket(...)".
ConvertRow(observations) ==
    /\ rest_pc = "loop"
    /\ rows_left > 0
    /\ \E parsed \in {parseRestPacket(batch_device_ids, batch_types, observations,
                                      calculator)} :
       \E mapped \in {mapToWeewxPacket(parsed.packet, sensor_map, TRUE,
                                       (driver.archive_interval + 59) \div 60,
                                       driver.generateRainRate)} :
          LET m3 == mapped.packet
          IN  /\ rows_left' = rows_left - 1
              /\ calculator' = parsed.calc
              /\ IF mapped.raised
                 THEN /\ rest_pc' = "raised"
                      /\ UNCHANGED <<archivePeriod, lightningPerTimestampArray,
                                     yielded, yielded_recs, windows, last_call,
                                     weatherflowArchiveAccum>>
                 ELSE IF Cardinality(DOMAIN m3) > 3
                 THEN ConvertRecord(m3)
                 ELSE UNCHANGED <<rest_pc, archivePeriod, lightningPerTimestampArray,
                                  yielded, yielded_recs, windows, last_call,
                                  weatherflowArchiveAccum>>
              /\ UNCHANGED <<now, storm_ts, driver, loop_vars, udp_vars, wf, probe>>

\* The next row of the batch is any row the service may return.
ConvertNext == \E observations \in RestRows(now) : ConvertRow(observations)

\* Lines 850-858: the input is exhausted, the open window is flushed.
ConvertEnd ==
    /\ rest_pc = "loop"
    /\ rows_left = 0
    /\ rest_pc' = "done"
    /\ IF archivePeriod # Null
       THEN LET got == getRecord(archivePeriod)
                archive_record ==
                    IF Len(lightningPerTimestampArray) > 0
                    THEN Put(got.record, "lightningPerTimestamp",
                             [json |-> lightningPerTimestampArray])
                    ELSE got.record
            IN  /\ yielded' = Append(yielded, archive_record)
                /\ yielded_recs' = Append(yielded_recs,
                                          archivePeriod.accumulator.recs)
                /\ lightningPerTimestampArray' = << >>
                /\ archivePeriod' = got.self
                /\ last_call' = Call("getRecord", archivePeriod, got)
                \* line 857
                /\ weatherflowArchiveAccum' = got.self.accumulator
       ELSE UNCHANGED <<yielded, yielded_recs, lightningPerTimestampArray,
                        archivePeriod, last_call, weatherflowArchiveAccum>>
    /\ UNCHANGED <<now, storm_ts, driver, calculator, rows_left, windows, loop_vars,
                   udp_vars, wf, probe>>

\* The wall clock advances.
Tick ==
    /\ now < MaxNow
    /\ now' = now + 1
    /\ UNCHANGED <<storm_ts, driver, calculator, rest_vars, loop_vars, udp_vars, wf, probe>>

\* WeatherFlowUDPDriver.__init__ (lines 728-733).
DriverInit(archive_interval, archive_delay) ==
    [archive_interval |-> archive_interval,
     archive_delay |-> archive_delay,
     toleratedUDPDelay |-> IF archive_delay - 3 < 0 THEN 0 ELSE archive_delay - 3,
     generateRainRate |-> FALSE]

\* The start of one convertREST2weewx call (lines 805-807).
ConvertStart(n) ==
    /\ rest_pc = "loop"
    /\ rows_left = n
    /\ archivePeriod = Null
    /\ lightningPerTimestampArray = << >>
    /\ yielded = << >>
    /\ yielded_recs = << >>
    /\ windows = << >>
    /\ last_call = NoCall
    /\ weatherflowArchiveAccum = Null

\* genLoopPackets is not running.
LoopIdle ==
    /\ loop_pc = "idle"
    /\ last_loop_timestamp = 0
    /\ loop_last = [outcome |-> "none"]

\* gen_udp_packets is not running.
UdpIdle ==
    /\ udp_pc = "idle"
    /\ udp_left = 0
    /\ udp_yielded = << >>

\* No function is under study.
NoProbe == [kind |-> "none"]

\* readDataFromWF is not running.
FetchIdle == wf = [pc |-> "idle"]

\* convertREST2weewx is not running.
ConvertIdle ==
    /\ rest_pc = "idle"
    /\ rows_left = 0
    /\ archivePeriod = Null
    /\ lightningPerTimestampArray = << >>
    /\ yielded = << >>
    /\ yielded_recs = << >>
    /\ windows = << >>
    /\ last_call = NoCall
    /\ weatherflowArchiveAccum = Null

Init ==
    /\ now = NowStart
    /\ storm_ts \in 1..MaxNow
    /\ \E i \in ArchiveIntervals, d \in ArchiveDelays : driver = DriverInit(i, d)
    /\ calculator = << >>
    /\ \E n \in 0..MaxRows : ConvertStart(n)
    /\ LoopIdle
    /\ UdpIdle
    /\ FetchIdle
    /\ probe = NoProbe

Next == ConvertNext \/ ConvertEnd \/ Tick

Spec == Init /\ [][Next]_vars

(***************************************************************************)
(* Properties of convertREST2weewx and ArchivePeriod.                      *)
(***************************************************************************)
\* C2: exactly one finalized aggregate per archive window: no two records
\* yielded by one convertREST2weewx call carry the same dateTime.
C2_OneRecordPerWindow ==
    \A i, j \in 1..Len(yielded) :
        i # j => yielded[i]["dateTime"] # yielded[j]["dateTime"]

\* C3: the archive window only rolls forward: every startNextArchiveInterval
\* call uses a start not earlier than the current window's start.
C3_WindowNeverMovesBack ==
    \A i \in 1..Len(windows) :
        windows[i].cause # "init" => windows[i].start >= windows[i].prev_start

\* C4 as stated: a window is closed by a record only when the record's
\* dateTime is at or after the window's end + archive_delay.
C4_ClosedOnlyAfterDelay ==
    \A i \in 1..Len(windows) :
        windows[i].cause # "init"
            => windows[i].ts >= windows[i].prev_end + driver.archive_delay

\* C4 as amended: a window is closed by a record only when the record's
\* dateTime is at or after the window's end + archive_delay or lies outside
\* the window's span (at or before its start, or after its end); a record
\* inside the span never closes it.
C4_ClosedOnlyOutsideSpan ==
    \A i \in 1..Len(windows) :
        windows[i].cause # "init"
            => \/ windows[i].ts >= windows[i].prev_end + driver.archive_delay
               \/ windows[i].ts <= windows[i].prev_start
               \/ windows[i].ts > windows[i].prev_end

\* C4's case: a record strictly between the end and end + archive_delay
\* closed the window.
C4_Witness ==
    \E i \in 1..Len(windows) :
        /\ windows[i].cause = "span"
        /\ windows[i].ts > windows[i].prev_end
        /\ windows[i].ts < windows[i].prev_end + driver.archive_delay

\* C5: after constructing an ArchivePeriod and after every
\* startNextArchiveInterval call the window's end, and the end of the
\* accumulator's timespan, is not after the wall clock of that moment.
C5_EndNeverAfterNow ==
    \A i \in 1..Len(windows) :
        /\ windows[i].end <= windows[i].now
        /\ windows[i].span_end <= windows[i].now

\* C6: getPreviousRecord returns the previous window's aggregate and clears
\* it, so that a second call returns nothing, and leaves the current window
\* alone; getRecord returns the aggregate in progress and leaves the
\* current and the previous window unchanged.
C6_DrainPreviousKeepCurrent ==
    /\ last_call.method = "getPreviousRecord" =>
          /\ last_call.before.old_accumulator # Null =>
                /\ last_call.record = AccumGetRecord(last_call.before.old_accumulator)
                /\ last_call.after.old_accumulator = Null
          /\ last_call.before.old_accumulator = Null => last_call.record = Null
          /\ getPreviousRecord(last_call.after).record = Null
          /\ last_call.after.accumulator = last_call.before.accumulator
    /\ last_call.method = "getRecord" =>
          /\ last_call.record = AccumGetRecord(last_call.before.accumulator)
          /\ last_call.after = last_call.before

\* C6's case: getPreviousRecord returned the aggregate of a closed window.
C6_Witness ==
    /\ last_call.method = "getPreviousRecord"
    /\ last_call.record # Null
    /\ Len(last_call.before.old_accumulator.recs) > 0

\* The lightning entries of the records accumulated into one window.
HasStrikes(m3) ==
    /\ "lightning_strike_count" \in DOMAIN m3
    /\ m3["lightning_strike_count"] > 0

StrikeEntries(recs) ==
    LET struck == SelectSeq(recs, HasStrikes)
    IN  [k \in 1..Len(struck) |-> LightningDict(struck[k])]

\* C7: the lightningPerTimestamp value of each yielded archive record is
\* the array of the lightning entries of exactly the records accumulated
\* into that record's window, in arrival order; a window without lightning
\* entries carries no lightningPerTimestamp key.
C7_LightningPerWindow ==
    \A i \in 1..Len(yielded) :
        IF Len(StrikeEntries(yielded_recs[i])) = 0
        THEN "lightningPerTimestamp" \notin DOMAIN yielded[i]
        ELSE /\ "lightningPerTimestamp" \in DOMAIN yielded[i]
             /\ yielded[i]["lightningPerTimestamp"].json
                    = StrikeEntries(yielded_recs[i])

\* The strike-count-weighted sum of the distances of a window's records
\* and the sum of the weights; a record without distance contributes nothing.
RECURSIVE DistanceWsum(_)
DistanceWsum(recs) ==
    IF recs = << >> THEN 0
    ELSE (IF Head(recs)["lightning_distance"] = None THEN 0
          ELSE Head(recs)["lightning_distance"] * Head(recs)["lightning_strike_count"])
         + DistanceWsum(Tail(recs))

RECURSIVE DistanceWeight(_)
DistanceWeight(recs) ==
    IF recs = << >> THEN 0
    ELSE (IF Head(recs)["lightning_distance"] = None THEN 0
          ELSE Head(recs)["lightning_strike_count"])
         + DistanceWeight(Tail(recs))

\* C8: within one archive window lightning_distance is the
\* strike-count-weighted mean of the records' distances, a record with zero
\* strikes (null distance) contributing nothing.
C8_WeightedDistance ==
    \A i \in 1..Len(yielded) :
        yielded[i]["lightning_distance"] =
            IF \A k \in 1..Len(yielded_recs[i]) :
                  yielded_recs[i][k]["lightning_distance"] = None
            THEN NoAvg
            ELSE [wsum |-> DistanceWsum(yielded_recs[i]),
                  sumtime |-> DistanceWeight(yielded_recs[i])]

\* C8's case: a window of two records, 0 strikes with null distance and
\* 3 strikes at distance 20, was yielded with the mean 60 / 3 = 20.
C8_Witness ==
    \E i \in 1..Len(yielded) :
        /\ Len(yielded_recs[i]) = 2
        /\ yielded_recs[i][1]["lightning_strike_count"] = 0
        /\ yielded_recs[i][1]["lightning_distance"] = None
        /\ yielded_recs[i][2]["lightning_strike_count"] = 3
        /\ yielded_recs[i][2]["lightning_distance"] = 20
        /\ yielded[i]["lightning_distance"] = [wsum |-> 60, sumtime |-> 3]
        /\ yielded[i]["lightning_distance"].wsum
               = 20 * yielded[i]["lightning_distance"].sumtime

(***************************************************************************)
(* The simulated REST data of test_weatherflow.py (setUp, lines 50-60, and *)
(* ztestSimulatedRESTData): ten obs_st rows of 22 values each, one device, *)
(* archive_interval 300 and archive_delay 15.                              *)
(***************************************************************************)
FixtureObs ==
    <<
       << <<1617299160, 0, 0, 0, 0, 3, 964000, 18800, 45000, 26000, 0,
             0, 0, 0, 21, 2, 2730, 1, 0, None, None, 0>> >>,
       << <<1617299220, 0, 0, 0, 0, 3, 964000, 18700, 45000, 19000, 0,
             0, 0, 0, 38, 1, 2730, 1, 0, None, None, 0>> >>,
       << <<1617299280, 0, 200, 1030, 114, 3, 964000, 18700, 45000, 14000, 0,
             0, 0, 0, 20, 2, 2730, 1, 0, None, None, 0>> >>,
       << <<1617299340, 0, 90, 800, 138, 3, 964100, 18600, 45000, 11000, 0,
             0, 0, 0, 38, 1, 2730, 1, 0, None, None, 0>> >>,
       << <<1617299400, 0, 20, 310, 222, 3, 964100, 18600, 45000, 8000, 0,
             0, 0, 0, 24, 1, 2730, 1, 0, None, None, 0>> >>,
       << <<1617299460, 0, 0, 0, 0, 3, 964100, 18600, 45000, 6000, 0,
             0, 0, 0, 0, 0, 2730, 1, 0, None, None, 0>> >>,
       << <<1617299520, 0, 110, 850, 98, 3, 964100, 18600, 46000, 4000, 0,
             0, 0, 0, 0, 0, 2730, 1, 0, None, None, 0>> >>,
       << <<1617299580, 0, 310, 1030, 92, 3, 964200, 18500, 46000, 5000, 0,
             0, 0, 0, 38, 1, 2730, 1, 0, None, None, 0>> >>,
       << <<1617299640, 0, 100, 800, 98, 3, 964200, 18500, 48000, 4000, 0,
             0, 0, 0, 22, 1, 2730, 1, 0, None, None, 0>> >>,
       << <<1617299700, 0, 180, 800, 109, 3, 964200, 18500, 48000, 4000, 0,
             0, 0, 0, 33, 1, 2730, 1, 0, None, None, 0>> >>
    >>

\* The wall clock of the test run: after the data, for FixtureTicks seconds.
FixtureNow == 1650000000

FixtureTicks == 9

FixtureNext ==
    /\ rows_left > 0
    /\ ConvertRow(FixtureObs[Len(FixtureObs) - rows_left + 1])

FixtureTick ==
    /\ now < FixtureNow + FixtureTicks
    /\ now' = now + 1
    /\ UNCHANGED <<storm_ts, driver, calculator, rest_vars, loop_vars, udp_vars, wf, probe>>

InitFixture ==
    /\ now = FixtureNow
    /\ storm_ts = 0
    /\ driver = DriverInit(300, 15)
    /\ calculator = << >>
    /\ ConvertStart(Len(FixtureObs))
    /\ LoopIdle
    /\ UdpIdle
    /\ FetchIdle
    /\ probe = NoProbe

NextFixture == FixtureNext \/ ConvertEnd \/ FixtureTick

SpecFixture == InitFixture /\ [][NextFixture]_vars

\* The dateTime values of a sequence of records.
DateTimes(recs) == [k \in 1..Len(recs) |-> recs[k]["dateTime"]]

\* C1: the ten fixture rows yield exactly two archive records, with
\* dateTime 1617299400 and 1617299700; the first aggregates the first five
\* rows (mean outTemp 18.68, mean pressure 964.04, strike count sum 7) and
\* the second the last five (mean outTemp 18.54, strike count sum 3).
C1_FixtureTwoRecords ==
    rest_pc = "done" =>
        /\ Len(yielded) = 2
        /\ yielded[1]["dateTime"] = 1617299400
        /\ yielded[2]["dateTime"] = 1617299700
        /\ DateTimes(yielded_recs[1]) =
               <<1617299160, 1617299220, 1617299280, 1617299340, 1617299400>>
        /\ DateTimes(yielded_recs[2]) =
               <<1617299460, 1617299520, 1617299580, 1617299640, 1617299700>>
        /\ yielded[1]["outTemp"].wsum = 18680 * yielded[1]["outTemp"].sumtime
        /\ yielded[1]["pressure"].wsum = 964040 * yielded[1]["pressure"].sumtime
        /\ yielded[1]["lightning_strike_count"] = 7
        /\ yielded[2]["outTemp"].wsum = 18540 * yielded[2]["outTemp"].sumtime
        /\ yielded[2]["lightning_strike_count"] = 3
        /\ \A i \in 1..2 : yielded[i]["outTemp"].sumtime = 5

\* C1's case: the ten rows were fed and the last window flushed.
C1_Witness ==
    /\ rest_pc = "done"
    /\ rows_left = 0
    /\ Len(windows) = 2
    /\ Len(yielded) > 0

(***************************************************************************)
(* genLoopPackets (lines 749-771) over the datagrams gen_udp_packets       *)
(* yields.                                                                 *)
(***************************************************************************)
\* Times at or below this are "obvious wrong values" of a hub that has not
\* been initialized (line 756).
UninitializedEpoch == 1000

\* Datagram times run up to UninitializedEpoch + MaxLoopSpan.
MaxLoopSpan == 2

LoopTimes == {0} \cup ((UninitializedEpoch - 1)..(UninitializedEpoch + MaxLoopSpan))

\* archive_delay of the configurations of the live loop: the tolerated
\* delay is 0 (floored) and 1 second.
LoopDelays == {2, 4}

\* The datagrams of a Tempest and its hub with time ts, a datagram without
\* serial_number and an observation datagram without its obs array.
Datagram(type, ts) ==
    CASE type = "obs_st" ->
           << <<"serial_number", "ST-00000025">>, <<"type", "obs_st">>,
              <<"hub_sn", "HB-12345678">>,
              <<"obs", << ObsSt(ts, 1200, 180, 964000, 18800, 0, 0) >> >>,
              <<"firmware_revision", 134>> >>
      [] type = "rapid_wind" ->
           << <<"serial_number", "ST-00000025">>, <<"type", "rapid_wind">>,
              <<"hub_sn", "HB-12345678">>, <<"ob", <<ts, 2500, 180>> >> >>
      [] type = "evt_strike" ->
           << <<"serial_number", "ST-00000025">>, <<"type", "evt_strike">>,
              <<"hub_sn", "HB-12345678">>, <<"evt", <<ts, 24, 123>> >> >>
      [] type = "hub_status" ->
           << <<"serial_number", "HB-12345678">>, <<"type", "hub_status">>,
              <<"firmware_revision", 134>>, <<"timestamp", ts>> >>
      [] type = "corrupt" ->
           << <<"type", "obs_st">>, <<"hub_sn", "HB-12345678">> >>
      [] type = "truncated" ->
           << <<"serial_number", "ST-00000025">>, <<"type", "obs_st">>,
              <<"hub_sn", "HB-12345678">> >>

\* What gen_udp_packets yields: rapid_wind at every time, the other kinds
\* of datagram at one plausible time each.
Datagrams ==
    {Datagram("rapid_wind", ts) : ts \in LoopTimes}
    \cup {Datagram(type, UninitializedEpoch + 1) : type \in {"obs_st", "evt_strike"}}
    \cup {Datagram("hub_status", UninitializedEpoch + MaxLoopSpan)}
    \cup {Datagram("corrupt", 0), Datagram("truncated", 0)}

\* A test that accepts every time; C9 does not hold for it.
PlausibleTimeAny(m2) == DictHas(m2, TimeEpochKey)

\* Line 756: the flat record has a time and it is plausible.

PlausibleTime(m2) ==
    /\ DictHas(m2, TimeEpochKey)
    /\ DictGet(m2, TimeEpochKey) > UninitializedEpoch

\* A routed packet that keeps nothing but dateTime and usUnits; C19 does not
\* hold when every packet counts as routed.
HasRoutedFieldAny(m3) == Cardinality(DOMAIN m3) >= 0

\* Line 758: "m3 and len(m3) > 2", a field beyond dateTime and usUnits.
HasRoutedField(m3) == Cardinality(DOMAIN m3) > 2

\* Line 759: the packet is not delayed beyond the tolerance.
NotDelayed(time_epoch, last) == (time_epoch + driver.toleratedUDPDelay) > last

\* One iteration of "for udp_packet in self.gen_udp_packets()".
LoopPacket(udp_packet) ==
    /\ loop_pc = "loop"
    /\ \E parsed \in {parseUDPPacket(udp_packet, calculator, now)} :
       \E mapped \in {mapToWeewxPacket(parsed.packet, sensor_map, FALSE, 1,
                                       driver.generateRainRate)} :
          LET m2 == parsed.packet
              m3 == mapped.packet
              time_epoch == IF DictHas(m2, TimeEpochKey)
                            THEN DictGet(m2, TimeEpochKey) ELSE None
              outcome ==
                  IF ~DictHas(m2, TimeEpochKey) THEN "no_time"
                  ELSE IF ~PlausibleTime(m2) THEN "uninitialized"
                  ELSE IF ~HasRoutedField(m3) THEN "unrouted"
                  ELSE IF NotDelayed(time_epoch, last_loop_timestamp) THEN "yield"
                  ELSE "delayed"
          IN  /\ calculator' = parsed.calc
              /\ IF parsed.raised \/ (PlausibleTime(m2) /\ mapped.raised)
                 THEN /\ loop_pc' = "raised"
                      /\ loop_last' = [outcome |-> "raised"]
                      /\ UNCHANGED last_loop_timestamp
                 ELSE /\ loop_pc' = loop_pc
                      /\ loop_last' =
                             [outcome |-> outcome, time_epoch |-> time_epoch,
                              last_before |-> last_loop_timestamp,
                              m3 |-> IF PlausibleTime(m2) THEN m3 ELSE EmptyDict]
                      /\ last_loop_timestamp' =
                             IF outcome = "yield" /\ time_epoch > last_loop_timestamp
                             THEN time_epoch
                             ELSE last_loop_timestamp
              /\ UNCHANGED <<now, storm_ts, driver, rest_vars, udp_vars, wf, probe>>

LoopNext == \E udp_packet \in Datagrams : LoopPacket(udp_packet)

InitLoop ==
    /\ now = UninitializedEpoch + MaxLoopSpan
    /\ storm_ts = 0
    /\ \E i \in ArchiveIntervals, d \in LoopDelays : driver = DriverInit(i, d)
    /\ calculator = << >>
    /\ ConvertIdle
    /\ loop_pc = "loop"
    /\ last_loop_timestamp = 0
    /\ loop_last = [outcome |-> "none"]
    /\ UdpIdle
    /\ FetchIdle
    /\ probe = NoProbe

NextLoop == LoopNext

SpecLoop == InitLoop /\ [][NextLoop]_vars

\* C9: genLoopPackets never yields a packet whose time_epoch is absent or
\* below 1000.
C9_NoUninitializedYield ==
    loop_last.outcome = "yield" =>
        /\ loop_last.time_epoch # None
        /\ loop_last.time_epoch >= 1000
        /\ loop_last.m3["dateTime"] >= 1000

\* C9's case: a routable datagram with a time below 1000 was handled.
C9_Witness ==
    /\ loop_last.outcome = "uninitialized"
    /\ loop_last.time_epoch < 1000
    /\ last_loop_timestamp > 0

\* C10: a routable packet with a plausible time is dropped as delayed if
\* and only if it is older than the last forwarded loop timestamp by more
\* than the tolerance; in particular a packet older by exactly the
\* tolerance is forwarded.
C10_DelayedIffBeyondTolerance ==
    loop_last.outcome \in {"yield", "delayed"} =>
        (loop_last.outcome = "delayed"
            <=> loop_last.last_before - loop_last.time_epoch
                    > driver.toleratedUDPDelay)

\* C11: one bad packet never ends the stream: decoding and routing a
\* datagram of a recognised type raise no exception, so genLoopPackets
\* never stops on a packet.
C11_BadPacketNeverEndsLoop == loop_pc # "raised"

\* C19: every record genLoopPackets yields holds dateTime, usUnits and at
\* least one further field; a routed result of only dateTime and usUnits
\* is not yielded and leaves last_loop_timestamp as it was.
C19_YieldHasRoutedField ==
    /\ loop_last.outcome = "yield" =>
           /\ {"dateTime", "usUnits"} \subseteq DOMAIN loop_last.m3
           /\ DOMAIN loop_last.m3 \ {"dateTime", "usUnits"} # {}
    /\ (/\ loop_last.outcome \in {"unrouted", "yield", "delayed"}
        /\ DOMAIN loop_last.m3 \subseteq {"dateTime", "usUnits"}) =>
           /\ loop_last.outcome = "unrouted"
           /\ last_loop_timestamp = loop_last.last_before

\* C19's case: a hub_status datagram, routed to nothing, with a plausible
\* time later than the last forwarded one.
C19_Witness ==
    /\ loop_last.outcome = "unrouted"
    /\ DOMAIN loop_last.m3 = {"dateTime", "usUnits"}
    /\ loop_last.time_epoch > loop_last.last_before
    /\ loop_last.last_before > 0

\* ------------------------------------------------------------------
\* gen_udp_packets: the receive loop on the socket.

\* Receive attempts of one run of the loop.
MaxDatagrams == 5

\* What recvfrom hands over: bytes that are or are not UTF-8, whose text is
\* or is not a JSON document, and the document they spell.
RawDatagram(utf8, json, value) == [utf8 |-> utf8, json |-> json, value |-> value]

RawDatagrams ==
    {RawDatagram(TRUE, TRUE, Datagram("rapid_wind", UninitializedEpoch + 1)),
     RawDatagram(TRUE, TRUE, Datagram("hub_status", UninitializedEpoch + 1)),
     RawDatagram(TRUE, FALSE, NoObs),
     RawDatagram(FALSE, FALSE, NoObs)}

\* json.loads on the received bytes: the bytes are decoded first
\* (UnicodeDecodeError), the text is parsed next (JSONDecodeError, a
\* ValueError that is not a UnicodeDecodeError).
json_loads(m0) ==
    IF ~m0.utf8 THEN [raises |-> "UnicodeDecodeError", m1 |-> NoObs]
    ELSE IF ~m0.json THEN [raises |-> "JSONDecodeError", m1 |-> NoObs]
    ELSE [raises |-> "none", m1 |-> m0.value]

\* Lines 787-789: recvfrom times out; the error is logged and the loop
\* goes on.
UdpTimeout ==
    /\ udp_pc = "recv"
    /\ udp_left > 0
    /\ udp_left' = udp_left - 1
    /\ UNCHANGED <<udp_pc, udp_yielded>>
    /\ UNCHANGED <<now, storm_ts, driver, calculator, rest_vars, loop_vars, probe, wf>>

\* Lines 787, 790-802: a datagram arrives and is decoded; only
\* UnicodeDecodeError is caught, and any other exception leaves the
\* generator through the finally clause.
UdpRecvfrom(m0) ==
    LET loaded == json_loads(m0)
    IN  /\ udp_pc = "recv"
        /\ udp_left > 0
        /\ udp_left' = udp_left - 1
        /\ CASE loaded.raises = "none" ->
                  /\ udp_yielded' = Append(udp_yielded, loaded.m1)
                  /\ UNCHANGED udp_pc
             [] loaded.raises = "UnicodeDecodeError" ->
                  UNCHANGED <<udp_pc, udp_yielded>>
             [] OTHER ->
                  /\ udp_pc' = "raised"
                  /\ UNCHANGED udp_yielded
        /\ UNCHANGED <<now, storm_ts, driver, calculator, rest_vars, loop_vars, probe, wf>>

UdpNext == \E m0 \in RawDatagrams : UdpRecvfrom(m0)

InitUdp ==
    /\ now = UninitializedEpoch + MaxLoopSpan
    /\ storm_ts = 0
    /\ driver = DriverInit(3, 2)
    /\ calculator = << >>
    /\ ConvertIdle
    /\ LoopIdle
    /\ udp_pc = "recv"
    /\ udp_left = MaxDatagrams
    /\ udp_yielded = << >>
    /\ FetchIdle
    /\ probe = NoProbe

NextUdp == UdpTimeout \/ UdpNext

SpecUdp == InitUdp /\ [][NextUdp]_vars

\* C12: a datagram that is not UTF-8 or not well-formed JSON is dropped
\* and the receive loop continues: no datagram ends the generator.
C12_UndecodableNeverEndsGenerator == udp_pc # "raised"

\* ------------------------------------------------------------------
\* parseUDPPacket, parseRestPacket and mapToWeewxPacket applied to one
\* input: a datagram or one row of a combined REST batch.

\* The time the devices report in these inputs.
ReportTime == UninitializedEpoch + 1

\* A configured sensor map for a station of an Air, a Sky and a Tempest.
station_sensor_map ==
    << <<"outTemp", << <<"air_temperature", "ST-00000025", "obs_st">> >> >>,
       <<"pressure", << <<"station_pressure", "ST-00000025", "obs_st", "udp">> >> >>,
       <<"rain", << <<"rain_accumulated", "ST-00000025", "obs_st">> >> >>,
       <<"lightning_strike_count",
            << <<"lightning_strike_count", "AR-00004424", "obs_air">> >> >>,
       <<"lightning_distance",
            << <<"lightning_strike_avg_distance", "AR-00004424", "obs_air">> >> >>,
       <<"windSpeed", << <<"wind_avg", "SK-00001234", "obs_sky">>,
                         <<"wind_speed", "ST-00000025", "rapid_wind", "udp">> >> >>,
       <<"windDir", << <<"wind_direction", "SK-00001234", "obs_sky">>,
                       <<"wind_direction", "ST-00000025", "rapid_wind", "udp">> >> >> >>

SensorMaps == {sensor_map, station_sensor_map}

\* An obs_air observation: the 8 values of fields("obs_air") in order.
ObsAir(time_epoch, strikes, distance) ==
    <<time_epoch, 964000, 18800, 45000, strikes, distance, 3460, 1>>

\* An obs_sky observation: the 14 values of fields("obs_sky") in order.
ObsSky(time_epoch, wind_avg, wind_direction) ==
    <<time_epoch, 26000, 0, 0, 0, wind_avg, wind_avg, wind_direction, 3120, 1,
      0, 0, 0, 3>>

\* Wind as <<speed, direction>>: calm (the device reports direction 0),
\* a speed that rounds to 0.00, and wind.
Winds == {<<0, 0>>, <<4, 90>>, <<1200, 180>>}

\* Lightning as <<strike count, average distance>>: no strike comes with
\* distance 0.
Lightnings == {<<0, 0>>, <<2, 20000>>}

\* rain_accumulated: none, some, and null.
Rains == {0, 200, None}

ObsStValues ==
    {[ObsSt(ReportTime, w[1], w[2], 964000, 18800, l[2], l[1]) EXCEPT ![13] = r] :
         w \in Winds, l \in Lightnings, r \in Rains}

\* The Tempest observations of the multi-device rows.
ObsStRowValues ==
    {ObsSt(ReportTime, w[1], w[2], 964000, 18800, l[2], l[1]) :
         w \in {<<0, 0>>, <<1200, 180>>}, l \in Lightnings}

ObsAirValues == {ObsAir(ReportTime, l[1], l[2]) : l \in Lightnings}

ObsSkyValues == {ObsSky(ReportTime, w[1], w[2]) : w \in Winds}

\* An observation datagram of a device.
ObsDatagram(serial, type, obs) ==
    << <<"serial_number", serial>>, <<"type", type>>, <<"hub_sn", "HB-12345678">>,
       <<"obs", <<obs>> >>, <<"firmware_revision", 134>> >>

RapidWind(ts, wind_speed, wind_direction) ==
    << <<"serial_number", "ST-00000025">>, <<"type", "rapid_wind">>,
       <<"hub_sn", "HB-12345678">>, <<"ob", <<ts, wind_speed, wind_direction>> >> >>

\* A datagram that lost a top-level key.
WithoutKey(pkt, key) == SelectSeq(pkt, LAMBDA e : e[1] # key)

\* The datagrams handed to parseUDPPacket.
UdpInputs ==
    {ObsDatagram("ST-00000025", "obs_st", obs) : obs \in ObsStValues}
    \cup {ObsDatagram("ST-00000025", "obs_st",
                      [ObsSt(ReportTime, 1200, 180, 964000, 18800, 0, 0)
                           EXCEPT ![17] = None])}
    \cup {RapidWind(ReportTime, w[1], w[2]) : w \in Winds}
    \cup {Datagram("evt_strike", ReportTime), Datagram("hub_status", ReportTime),
          Datagram("truncated", ReportTime)}
    \cup {WithoutKey(ObsDatagram("ST-00000025", "obs_st", obs), key) :
              obs \in {ObsSt(ReportTime, 1200, 180, 964000, 18800, 0, 0)},
              key \in {"serial_number", "type"}}
    \cup {WithoutKey(WithoutKey(RapidWind(ReportTime, 2500, 180), "type"),
                     "serial_number")}

\* The combined REST batches: device ids and types of the slots, and the
\* rows they may hold.  A slot is an observation or empty.
RestBatch(device_ids, types, rows) ==
    [device_ids |-> device_ids, types |-> types, rows |-> rows]

RestBatches ==
    {RestBatch(<<1>>, <<"obs_st">>, {<<o>> : o \in ObsStValues}),
     RestBatch(<<2, 1>>, <<"obs_air", "obs_st">>,
               {<<a, o>> : a \in ObsAirValues \cup {NoObs},
                           o \in ObsStRowValues \cup {NoObs}} \ {<<NoObs, NoObs>>}),
     RestBatch(<<3, 1>>, <<"obs_sky", "obs_st">>,
               {<<k, o>> : k \in ObsSkyValues \cup {NoObs},
                           o \in ObsStRowValues \cup {NoObs}} \ {<<NoObs, NoObs>>})}

\* The rows handed to parseRestPacket.
RestInputs ==
    UNION {{[device_ids |-> b.device_ids, types |-> b.types, observations |-> row] :
               row \in b.rows} : b \in RestBatches}

\* The calculator's list before the call: empty, or one voltage.
CalculatorLists == {<< >>, <<2730>>}

\* The call under way: its input, then the flat record the parser made of
\* it (m2), then the results of routing it twice in a row.
ProbeInput(isRest, input, map) ==
    [kind |-> "input", isRest |-> isRest, input |-> input, sensor_map |-> map]

\* m2 = parseUDPPacket(udp_packet, self._calculator)
DecodeUdp ==
    /\ probe.kind = "input"
    /\ ~probe.isRest
    /\ \E parsed \in {parseUDPPacket(probe.input, calculator, now)} :
        /\ calculator' = parsed.calc
        /\ probe' = [kind |-> "decoded", isRest |-> FALSE, input |-> probe.input,
                     sensor_map |-> probe.sensor_map, m2 |-> parsed.packet,
                     raised |-> parsed.raised, calc_before |-> calculator]
        /\ UNCHANGED <<now, storm_ts, driver, rest_vars, loop_vars, udp_vars, wf>>

\* One m2 of "for m2 in parseRestPacket(...)"
DecodeRest ==
    /\ probe.kind = "input"
    /\ probe.isRest
    /\ \E parsed \in {parseRestPacket(probe.input.device_ids, probe.input.types,
                                      probe.input.observations, calculator)} :
        /\ calculator' = parsed.calc
        /\ probe' = [kind |-> "decoded", isRest |-> TRUE, input |-> probe.input,
                     sensor_map |-> probe.sensor_map, m2 |-> parsed.packet,
                     raised |-> FALSE, calc_before |-> calculator]
        /\ UNCHANGED <<now, storm_ts, driver, rest_vars, loop_vars, udp_vars, wf>>

\* m3 = mapToWeewxPacket(m2, ...), and the same call once more on m2 as
\* the first call left it.
Route ==
    /\ probe.kind = "decoded"
    /\ ~probe.raised
    /\ \E interval \in {IF probe.isRest
                         THEN (driver.archive_interval + 59) \div 60 ELSE 1} :
       \E first \in {mapToWeewxPacket(probe.m2, probe.sensor_map, probe.isRest,
                                      interval, driver.generateRainRate)} :
       \E second \in {mapToWeewxPacket(first.pkt, probe.sensor_map, probe.isRest,
                                       interval, driver.generateRainRate)} :
        /\ probe' = [kind |-> "routed", isRest |-> probe.isRest,
                     input |-> probe.input, sensor_map |-> probe.sensor_map,
                     m2 |-> probe.m2, first |-> first, second |-> second]
        /\ UNCHANGED <<now, storm_ts, driver, calculator, rest_vars, loop_vars,
                       udp_vars, wf>>

InitRoute ==
    /\ now = ReportTime
    /\ storm_ts = 0
    /\ \E g \in BOOLEAN : driver = [DriverInit(60, 15) EXCEPT !.generateRainRate = g]
    /\ calculator \in CalculatorLists
    /\ ConvertIdle
    /\ LoopIdle
    /\ UdpIdle
    /\ FetchIdle
    /\ \E map \in SensorMaps :
           \/ \E input \in UdpInputs : probe = ProbeInput(FALSE, input, map)
           \/ \E input \in RestInputs : probe = ProbeInput(TRUE, input, map)

NextRoute == DecodeUdp \/ DecodeRest \/ Route

SpecRoute == InitRoute /\ [][NextRoute]_vars

\* C13: parseUDPPacket on a datagram that lacks serial_number or type
\* returns an empty record, raises nothing and leaves the calculator's
\* list as it was.
C13_CorruptPacketGivesEmptyRecord ==
    (/\ probe.kind = "decoded"
     /\ ~probe.isRest
     /\ (~DictHas(probe.input, "serial_number") \/ ~DictHas(probe.input, "type"))) =>
        /\ probe.m2 = << >>
        /\ ~probe.raised
        /\ calculator = probe.calc_before

\* C13's case: an obs_st datagram with a battery voltage but without
\* serial_number was decoded while the calculator held a voltage.
C13_Witness ==
    /\ probe.kind = "decoded"
    /\ ~probe.isRest
    /\ ~DictHas(probe.input, "serial_number")
    /\ DictHas(probe.input, "obs")
    /\ probe.calc_before # << >>

\* A datagram of type obs_st with serial_number and an obs array whose
\* first element has the 18 values of the schema.
WellFormedObsSt(pkt) ==
    /\ DictHas(pkt, "serial_number")
    /\ DictHas(pkt, "type")
    /\ DictGet(pkt, "type") = "obs_st"
    /\ DictHas(pkt, "obs")
    /\ Len(DictGet(pkt, "obs")) > 0
    /\ Len(DictGet(pkt, "obs")[1]) = 18

\* C14 as stated: for a well-formed obs_st datagram the record has
\* time_epoch = obs[0][0] and exactly 18 further keys.
C14_ExactlySchemaKeys ==
    (probe.kind = "decoded" /\ ~probe.isRest /\ WellFormedObsSt(probe.input)) =>
        /\ DictGet(probe.m2, TimeEpochKey) = DictGet(probe.input, "obs")[1][1]
        /\ Len(probe.m2) = 1 + 18

\* C14 as amended: for a well-formed obs_st datagram the record has
\* time_epoch = obs[0][0], one key per name of fields['obs_st'] holding the
\* value at that position, one key per top-level key of the datagram
\* holding its value, the key battery_mode exactly when the calculator's
\* list is not empty after the call, and no other key.
C14_SchemaAndTopLevelKeys ==
    (probe.kind = "decoded" /\ ~probe.isRest /\ WellFormedObsSt(probe.input)) =>
        LET obs0 == DictGet(probe.input, "obs")[1]
            Key(name) == <<name, "ST_00000025", "obs_st">>
            schema == fields("obs_st")
            mode == IF calculator # << >> THEN 1 ELSE 0
        IN  /\ ~probe.raised
            /\ DictGet(probe.m2, TimeEpochKey) = obs0[1]
            /\ \A i \in 1..18 : /\ DictHas(probe.m2, Key(schema[i]))
                                 /\ DictGet(probe.m2, Key(schema[i])) = obs0[i]
            /\ \A i \in 1..Len(probe.input) :
                   /\ DictHas(probe.m2, Key(probe.input[i][1]))
                   /\ DictGet(probe.m2, Key(probe.input[i][1])) = probe.input[i][2]
            /\ DictHas(probe.m2, Key("battery_mode")) <=> calculator # << >>
            /\ Len(probe.m2) = 1 + 18 + Len(probe.input) + mode
            /\ \A i, j \in 1..Len(probe.m2) :
                   probe.m2[i][1] = probe.m2[j][1] => i = j

\* C14's case: a well-formed obs_st datagram of five top-level keys was
\* decoded and got a battery mode.
C14_Witness ==
    /\ probe.kind = "decoded"
    /\ ~probe.isRest
    /\ WellFormedObsSt(probe.input)
    /\ Len(probe.m2) = 1 + 18 + 5 + 1
    /\ DictHas(probe.m2, <<"battery_mode", "ST_00000025", "obs_st">>)

\* A routing label applies to the transport of the record.
Applies(label, isRest) ==
    \/ Len(label) = 3
    \/ Len(label) = 4 /\ label[4] = "rest" /\ isRest
    \/ Len(label) = 4 /\ label[4] = "udp" /\ ~isRest

\* The flat-record key a label names, whatever its suffix.
NamedKey(label) == <<label[1], ReplaceDash(label[2]), label[3]>>

\* The keys of pkt that the applicable labels of a sensor-map entry name.
Sources(entry, pkt, isRest) ==
    {NamedKey(entry[2][j]) : j \in {x \in 1..Len(entry[2]) :
                                       /\ Applies(entry[2][x], isRest)
                                       /\ DictHas(pkt, NamedKey(entry[2][x]))}}

\* The canonical fields of the probe's sensor map whose only source in the
\* flat record is key.
RoutedFrom(key) ==
    {probe.sensor_map[i][1] : i \in {x \in 1..Len(probe.sensor_map) :
        Sources(probe.sensor_map[x], probe.m2, probe.isRest) = {key}}}

\* The keys "<field>.<serial>.<type>" of a flat record for one field name.
FieldKeys(pkt, field) ==
    {pkt[i][1] : i \in {x \in 1..Len(pkt) : Len(pkt[x][1]) = 3 /\ pkt[x][1][1] = field}}

\* C15: after mapToWeewxPacket, for every device of the flat record whose
\* lightning_strike_count is 0 the lightning_strike_avg_distance of that
\* device is None in the flat record and in every canonical field routed
\* from it.
C15_NoStrikeNoDistance ==
    probe.kind = "routed" =>
        \A key \in FieldKeys(probe.first.pkt, "lightning_strike_count") :
            LET distance_key == <<"lightning_strike_avg_distance", key[2], key[3]>>
            IN  (DictGet(probe.first.pkt, key) = 0
                 /\ DictHas(probe.first.pkt, distance_key)) =>
                    /\ DictGet(probe.first.pkt, distance_key) = None
                    /\ \A f \in RoutedFrom(distance_key) :
                           probe.first.packet[f] = None

\* C16: after mapToWeewxPacket, for every device whose wind_avg or
\* wind_speed rounds to 0.00 the canonical fields routed from that
\* device's wind_direction are None; for every device whose wind is not
\* zero they hold the direction the flat record came with.
C16_CalmNoDirection ==
    probe.kind = "routed" =>
        \A key \in FieldKeys(probe.m2, "wind_avg") \cup FieldKeys(probe.m2, "wind_speed") :
            LET direction_key == <<"wind_direction", key[2], key[3]>>
                wind == DictGet(probe.m2, key)
            IN  (wind # None /\ DictHas(probe.m2, direction_key)) =>
                    \A f \in RoutedFrom(direction_key) :
                        probe.first.packet[f] =
                            IF RoundsToZero(wind) THEN None
                            ELSE DictGet(probe.m2, direction_key)

\* C17: a label ending in .rest contributes only to REST records, a label
\* ending in .udp only to loop records, a label without suffix to both: a
\* canonical field of the sensor map is in the routed record exactly when
\* the flat record has the key of one of its labels that apply to the
\* record's transport, and it holds the value of such a key.
C17_SuffixSelectsTransport ==
    probe.kind = "routed" =>
        \A i \in 1..Len(probe.sensor_map) :
            LET f == probe.sensor_map[i][1]
                sources == Sources(probe.sensor_map[i], probe.first.pkt, probe.isRest)
            IN  /\ f \in DOMAIN probe.first.packet <=> sources # {}
                /\ sources # {} =>
                       \E key \in sources :
                           probe.first.packet[f] = DictGet(probe.first.pkt, key)

\* C17's case: a record that has the key of a label of the other
\* transport (a loop record with wind_avg of obs_st, labelled .rest, or a
\* REST record with station_pressure of obs_st, labelled .udp) and whose
\* routed record lacks the label's field.
C17_Witness ==
    /\ probe.kind = "routed"
    /\ \E i \in 1..Len(probe.sensor_map) :
          /\ probe.sensor_map[i][1] \notin DOMAIN probe.first.packet
          /\ \E j \in 1..Len(probe.sensor_map[i][2]) :
                LET label == probe.sensor_map[i][2][j]
                IN  /\ Len(label) = 4
                    /\ label[4] = (IF probe.isRest THEN "udp" ELSE "rest")
                    /\ DictHas(probe.first.pkt, NamedKey(label))

\* C18: routing is idempotent: a second mapToWeewxPacket call on the flat
\* record as the first call left it, with the same sensor map and flags,
\* returns a record equal to the first result and leaves the flat record
\* as it found it.
C18_RoutingIdempotent ==
    (probe.kind = "routed" /\ ~probe.first.raised) =>
        /\ ~probe.second.raised
        /\ probe.second.packet = probe.first.packet
        /\ probe.second.pkt = probe.first.pkt

\* C18's case: the first call changed the flat record (a zero value became
\* None) and routed the changed value.
C18_Witness ==
    /\ probe.kind = "routed"
    /\ ~probe.first.raised
    /\ probe.first.pkt # probe.m2
    /\ "windDir" \in DOMAIN probe.first.packet
    /\ probe.first.packet["windDir"] = None

\* ------------------------------------------------------------------
\* getSensorMap: the sensor map generated for a list of devices.

\* fieldsDictionary[typeString]: the package types of a device type in
\* order, each with its (canonical field, WeatherFlow field) pairs.  A
\* package type "<type>.udp" is the tuple <<type, "udp">>.
fieldsDictionary(typeString) ==
    CASE typeString = "ST-" ->
           << << <<"evt_strike", "udp">>, << >> >>,
              << <<"rapid_wind", "udp">>,
                 << <<"windSpeed", "wind_speed">>, <<"windDir", "wind_direction">> >> >>,
              << <<"obs_st", "rest">>,
                 << <<"windSpeed", "wind_avg">>, <<"windDir", "wind_direction">>,
                    <<"windGust", "wind_gust">> >> >>,
              << <<"obs_st">>,
                 << <<"outTemp", "air_temperature">>,
                    <<"outHumidity", "relative_humidity">>,
                    <<"pressure", "station_pressure">>,
                    <<"lightning_strike_count", "lightning_strike_count">>,
                    <<"lightning_distance", "lightning_strike_avg_distance">>,
                    <<"outTempBatteryStatus", "battery">>,
                    <<"luminosity", "illuminance">>, <<"UV", "uv">>,
                    <<"rain", "rain_accumulated">>,
                    <<"radiation", "solar_radiation">>,
                    <<"batteryStatus1", "battery_mode">> >> >>,
              << <<"device_status">>,
                 << <<"signal1", "rssi">>, <<"signal2", "hub_rssi">> >> >> >>
      [] typeString = "AR-" ->
           << << <<"obs_air">>,
                 << <<"outTemp", "air_temperature">>,
                    <<"outHumidity", "relative_humidity">>,
                    <<"pressure", "station_pressure">>,
                    <<"lightning_strike_count", "lightning_strike_count">>,
                    <<"lightning_distance", "lightning_strike_avg_distance">>,
                    <<"outTempBatteryStatus", "battery">> >> >> >>
      [] typeString = "SK-" ->
           << << <<"obs_sky">>,
                 << <<"windSpeed", "wind_avg">>, <<"windDir", "wind_direction">>,
                    <<"windGust", "wind_gust">>, <<"luminosity", "illuminance">>,
                    <<"UV", "uv">>, <<"rain", "rain_accumulated">>,
                    <<"windBatteryStatus", "battery">>,
                    <<"radiation", "solar_radiation">> >> >> >>
      [] typeString = "HB-" ->
           << << <<"hub_status">>, << <<"signal3", "rssi">> >> >> >>

DeviceTypes == {"ST-", "AR-", "SK-", "HB-"}

\* device[0:3] on the serial numbers the model uses.
typeString(device) ==
    CASE device \in {"ST-00000025", "ST-00000026"} -> "ST-"
      [] device = "AR-00004424" -> "AR-"
      [] device = "SK-00001234" -> "SK-"
      [] device = "HB-12345678" -> "HB-"
      [] OTHER -> "??-"

\* devices.reverse()
Reverse(seq) == [i \in 1..Len(seq) |-> seq[Len(seq) + 1 - i]]

\* str.endswith on a label or package type held as the tuple of its parts.
EndsWith(parts, suffix) == Len(parts) > 1 /\ parts[Len(parts)] = suffix

\* A value of the generated map: a string (one label) or a list of labels.
MapString(label) == [isString |-> TRUE, labels |-> <<label>>]

MapList(labels) == [isString |-> FALSE, labels |-> labels]

\* A generator that joins a new label to any existing string; C20 does
\* not hold for it.
CombineMappingAlways(existingMapping, mapping, packageType) ==
    IF existingMapping.isString
    THEN MapList(Append(existingMapping.labels, mapping))
    ELSE MapString(mapping)

\* Lines 677-686 for a field that is already mapped: the value the update
\* of line 686 stores.
CombineMapping(existingMapping, mapping, packageType) ==
    LET existing == existingMapping.labels[1]
        hasUdp == existingMapping.isString
                  /\ (EndsWith(packageType, "udp") \/ EndsWith(existing, "udp"))
        hasRest == existingMapping.isString
                   /\ (EndsWith(packageType, "rest") \/ EndsWith(existing, "rest"))
    IN  IF hasUdp /\ hasRest
        THEN MapList(<<existing, mapping>>)
        ELSE MapString(mapping)

\* The (field, label, package type) assignments of one device, in the
\* order of the loops of lines 672-675.
RECURSIVE PackageSteps(_, _, _)
PackageSteps(device, packages, pos) ==
    IF pos > Len(packages) THEN << >>
    ELSE LET packageType == packages[pos][1]
             flds == packages[pos][2]
         IN  [i \in 1..Len(flds) |->
                 [field |-> flds[i][1],
                  mapping |-> <<flds[i][2], device>> \o packageType,
                  packageType |-> packageType]]
             \o PackageSteps(device, packages, pos + 1)

\* The assignments of the devices from position pos on; devices that are
\* not in device_id_dict are skipped.
RECURSIVE DeviceSteps(_, _, _)
DeviceSteps(devices, known, pos) ==
    IF pos > Len(devices) THEN << >>
    ELSE (IF devices[pos] \in known
          THEN PackageSteps(devices[pos], fieldsDictionary(typeString(devices[pos])), 1)
          ELSE << >>)
         \o DeviceSteps(devices, known, pos + 1)

\* The value of one field after its assignments from position pos on;
\* value is Null while the field is not mapped.
RECURSIVE FieldMapping(_, _, _)
FieldMapping(steps, pos, value) ==
    IF pos > Len(steps) THEN value
    ELSE FieldMapping(steps, pos + 1,
             IF value = Null
             THEN MapString(steps[pos].mapping)
             ELSE CombineMapping(value, steps[pos].mapping, steps[pos].packageType))

\* getSensorMap(devices, device_id_dict): the generated map as the ordered
\* pairs (field, value), the devices list as the call leaves it, and
\* whether an exception left the call.  known is device_id_dict.values().
\* A known device of a type without schema raises TypeError at line 670
\* ('...{}' % device).
getSensorMap(devices, known) ==
    LET reversed == Reverse(devices)
        raises == \E i \in 1..Len(reversed) :
                      /\ reversed[i] \in known
                      /\ typeString(reversed[i]) \notin DeviceTypes
        steps == DeviceSteps(reversed, known, 1)
        IsFirst(i) == \A j \in 1..(i - 1) : steps[j].field # steps[i].field
        firsts == SelectSeq([i \in 1..Len(steps) |-> i], IsFirst)
        Of(field) == SelectSeq(steps, LAMBDA st : st.field = field)
    IN  IF raises
        THEN [sensor_map |-> << >>, devices |-> reversed, raised |-> TRUE]
        ELSE [sensor_map |->
                  [n \in 1..Len(firsts) |->
                      <<steps[firsts[n]].field,
                        FieldMapping(Of(steps[firsts[n]].field), 1, Null)>>],
              devices |-> reversed, raised |-> FALSE]

\* Devices in the list handed to getSensorMap.
MaxDevices == 3

\* The serial numbers of the station (device_id_dict.values()): two
\* Tempests, an Air, a Sky, the hub and a device of a type without schema.
StationDevices ==
    {"ST-00000025", "ST-00000026", "AR-00004424", "SK-00001234", "HB-12345678",
     "TS-00000001"}

\* The configured devices: those of the station and one it does not have.
ConfiguredDevices == StationDevices \cup {"ST-00000099"}

DeviceLists ==
    UNION {[1..n -> ConfiguredDevices \ {"TS-00000001"}] : n \in 0..MaxDevices}
    \cup {<<"ST-00000025", "TS-00000001">>, <<"TS-00000001">>}

\* self._sensor_map = getSensorMap(self._devices, self._device_id_dict)
GenerateSensorMap ==
    /\ probe.kind = "devices"
    /\ probe' = [kind |-> "sensor_map", devices |-> probe.devices,
                 result |-> getSensorMap(probe.devices, StationDevices)]
    /\ UNCHANGED <<now, storm_ts, driver, calculator, rest_vars, loop_vars, udp_vars, wf>>

InitSensorMap ==
    /\ now = ReportTime
    /\ storm_ts = 0
    /\ driver = DriverInit(60, 15)
    /\ calculator = << >>
    /\ ConvertIdle
    /\ LoopIdle
    /\ UdpIdle
    /\ FetchIdle
    /\ \E devices \in DeviceLists : probe = [kind |-> "devices", devices |-> devices]

NextSensorMap == GenerateSensorMap

SpecSensorMap == InitSensorMap /\ [][NextSensorMap]_vars

\* C20: every field of the map getSensorMap generates holds a single
\* label, or a list of exactly two labels of which one ends in .rest and
\* the other in .udp; no field holds two labels that apply to the same
\* transport.
C20_LabelsTransportDisjoint ==
    (probe.kind = "sensor_map" /\ ~probe.result.raised) =>
        \A i \in 1..Len(probe.result.sensor_map) :
            LET value == probe.result.sensor_map[i][2]
                labels == value.labels
            IN  /\ \/ value.isString /\ Len(labels) = 1
                   \/ /\ ~value.isString
                      /\ Len(labels) = 2
                      /\ {labels[1][Len(labels[1])], labels[2][Len(labels[2])]}
                             = {"rest", "udp"}
                /\ \A isRest \in BOOLEAN :
                       Cardinality({j \in 1..Len(labels) : Applies(labels[j], isRest)}) <= 1

\* C20's case: a Sky and a Tempest, whose wind labels compete for
\* windSpeed: the map holds the Tempest's .udp and .rest labels.
C20_Witness ==
    /\ probe.kind = "sensor_map"
    /\ probe.devices = <<"ST-00000025", "SK-00001234">>
    /\ ~probe.result.raised
    /\ \E i \in 1..Len(probe.result.sensor_map) :
          /\ probe.result.sensor_map[i][1] = "windSpeed"
          /\ probe.result.sensor_map[i][2] =
                 MapList(<< <<"wind_speed", "ST-00000025", "rapid_wind", "udp">>,
                            <<"wind_avg", "ST-00000025", "obs_st", "rest">> >>)

\* ------------------------------------------------------------------
\* readDataFromWF: the paginated fetch from the REST service.  wf holds
\* the arguments and the locals of the generator under their names, the
\* generator's position (pc), and a log of what the service answered.

\* self._device_dict: serial number -> REST device id.
device_dict(device) ==
    CASE device = "ST-00000025" -> 1
      [] device = "AR-00004424" -> 2
      [] device = "HB-00000001" -> 9

\* self._device_type_dict: serial number -> device type.
device_type_dict(device) ==
    CASE device = "ST-00000025" -> "ST"
      [] device = "AR-00004424" -> "AR"
      [] device = "HB-00000001" -> "HB"

\* jsonResponse['type'] for a device of the service.
ResponseType(device_id) ==
    CASE device_id = 1 -> "obs_st"
      [] device_id = 2 -> "obs_air"

\* timestamps = None, and timestamps = a list with these members.
NoTimestamps == [none |-> TRUE, list |-> {}]

TimestampList(S) == [none |-> FALSE, list |-> S]

\* "timestamps or list()"
OrList(timestamps) == IF timestamps.none THEN {} ELSE timestamps.list

\* Line 500: timestamps or (timestamps or list())
\*                          + list(set(newTimestamps) - set(timestamps or list()))
MergeTimestamps(timestamps, newTimestamps) ==
    IF ~timestamps.none /\ timestamps.list # {}
    THEN timestamps
    ELSE TimestampList(OrList(timestamps) \cup (newTimestamps \ OrList(timestamps)))

Maximum(S) == CHOOSE x \in S : \A y \in S : y <= x

Minimum(S) == CHOOSE x \in S : \A y \in S : x <= y

\* sorted(S) for a set of numbers.
RECURSIVE Sorted(_)
Sorted(S) == IF S = {} THEN << >> ELSE <<Minimum(S)>> \o Sorted(S \ {Minimum(S)})

\* An observation of the service: its timestamp and the device it is from.
Observation(t, device_id) == <<t, device_id>>

\* A time_end that is the end of the batch whatever lastTimestamp is.
RequestEndOfBatch(w) == w.end

\* Line 472: the time_end of the request, "lastTimestamp or end".
RequestEnd(w) ==
    IF w.lastTimestamp = None \/ w.lastTimestamp = 0 THEN w.end ELSE w.lastTimestamp

\* The timestamps the service stores for the device within the request.
InRequest(w) ==
    {t \in w.stored[w.devices[w.device]] : w.start <= t /\ t <= RequestEnd(w)}

\* What requests.get can do: raise ConnectionError, raise a Timeout that is
\* no ConnectionError (a read timeout), answer with a status other than
\* 200, or answer with a document whose obs is null or a list.
\* The list holds what is stored; null stands for no data or for data
\* that has not reached the service yet.
JsonResponse(obs_none, obs) == [kind |-> "json", obs_none |-> obs_none, obs |-> obs]

Responses(w) ==
    {[kind |-> "ConnectionError"], [kind |-> "Timeout"], [kind |-> "status"],
     JsonResponse(FALSE, InRequest(w)), JsonResponse(TRUE, {})}

\* An exception leaves the generator.
Raise(w, exception) == [w EXCEPT !.pc = "raised", !.raised = exception]

\* Lines 511-522: the combined batch.
Combine(w) ==
    [device_ids |-> [i \in 1..Len(w.results) |-> w.results[i].device_id],
     types |-> [i \in 1..Len(w.results) |-> w.results[i].type],
     obs |-> LET ts == Sorted(w.timestamps.list)
             IN  [k \in 1..Len(ts) |->
                     [i \in 1..Len(w.results) |->
                         IF ts[k] \in DOMAIN w.results[i].obs
                         THEN w.results[i].obs[ts[k]]
                         ELSE NoObs]]]

\* Lines 507-524: an empty results list raises IncompleteDataException,
\* anything else is combined and yielded.
EndBatch(w) ==
    IF Len(w.results) = 0
    THEN Raise(w, "IncompleteDataException")
    ELSE [w EXCEPT !.pc = "yielded", !.combinedResult = Combine(w),
                   !.batches = @ + 1]

\* Lines 455-460: the next device that is not a hub, if there is one, is
\* about to be asked.
NextDevice(w, from) ==
    LET rest == {i \in from..Len(w.devices) : device_type_dict(w.devices[i]) # "HB"}
    IN  IF rest = {}
        THEN EndBatch(w)
        ELSE [w EXCEPT !.pc = "request", !.device = Minimum(rest),
                       !.retry = 0, !.observation_count = None]

\* Lines 450-454: a batch begins.
BeginBatch(w, start) ==
    NextDevice([w EXCEPT !.start = start, !.end = start + w.batch_size - 1,
                         !.lastTimestamp = None, !.results = << >>,
                         !.timestamps = NoTimestamps, !.attempts = << >>,
                         !.combinedResult = Null],
               1)

\* What the log keeps of one call of requests.get: the device, the
\* time_end of the url (line 472), how the call ended, the number of
\* observations in the answer and the newest of their timestamps.
Attempt(w, kind, count) ==
    [device |-> w.device, kind |-> kind, count |-> count,
     time_end |-> RequestEnd(w),
     newest |-> IF count = None \/ count = 0 THEN None ELSE Maximum(InRequest(w))]

\* The device's IncompleteDataException is not caught.
DeviceIncompleteRaises(w) == Raise(w, "IncompleteDataException")

\* Lines 504-505: the device's IncompleteDataException is caught and the
\* loop goes to the next device.
DeviceIncomplete(w) == NextDevice(w, w.device + 1)

\* ConnectionError leaves the generator one failure later.
ConnectionFailedLate(w) ==
    LET logged == [w EXCEPT !.retry = @ + 1,
                            !.attempts = Append(@, Attempt(w, "ConnectionError", None))]
    IN  IF logged.retry > w.max_retry_count + 1
        THEN Raise(logged, "ConnectionError")
        ELSE logged

\* Lines 476-482: ConnectionError.
ConnectionFailed(w) ==
    LET logged == [w EXCEPT !.retry = @ + 1,
                            !.attempts = Append(@, Attempt(w, "ConnectionError", None))]
    IN  IF logged.retry > w.max_retry_count
        THEN Raise(logged, "ConnectionError")
        ELSE logged

\* Lines 492-503: the response is accepted and becomes the device's result.
Accept(w, response) ==
    IF w.lastTimestamp = None /\ ~response.obs_none /\ response.obs = {}
    THEN Raise(w, "IndexError")
    ELSE LET device_id == device_dict(w.devices[w.device])
             result == [device_id |-> device_id,
                        type |-> ResponseType(device_id),
                        obs |-> [t \in response.obs |-> Observation(t, device_id)]]
         IN  NextDevice([w EXCEPT !.lastTimestamp =
                                      IF @ = None /\ ~response.obs_none
                                      THEN Maximum(response.obs) ELSE @,
                                  !.timestamps = MergeTimestamps(@, response.obs),
                                  !.results = Append(@, result)],
                        w.device + 1)

\* Lines 484-491 and the loop test of lines 461-466 that follows.
Answered(w, response) ==
    LET count == Cardinality(response.obs)
        logged == [w EXCEPT !.retry = @ + 1, !.observation_count = count,
                            !.attempts = Append(@, Attempt(w, "json", count))]
    IN  IF count < w.min_expected_observation_count
        THEN IF logged.retry > w.max_retry_count
             THEN DeviceIncomplete(logged)
             ELSE logged
        ELSE Accept(logged, response)

\* Lines 473-503 for one call of requests.get.
AfterResponse(w, response) ==
    CASE response.kind = "ConnectionError" -> ConnectionFailed(w)
      [] response.kind = "Timeout" ->
             Raise([w EXCEPT !.attempts = Append(@, Attempt(w, "Timeout", None))],
                   "Timeout")
      [] response.kind = "status" ->
             Raise([w EXCEPT !.attempts = Append(@, Attempt(w, "status", None))],
                   "DriverException")
      [] response.kind = "json" -> Answered(w, response)

\* A test that ignores the stop bound.
isFinishedNowOnly(w, t) == w.end > t

\* Line 525: "end > now or (stop and end > stop)".
isFinished(w, t) ==
    w.end > t \/ (w.stop # None /\ w.stop # 0 /\ w.end > w.stop)

\* Line 528: the start of the next batch.
NextStart(w) == IF w.lastTimestamp = None THEN w.end ELSE w.lastTimestamp + 1

\* Lines 525-528 and 449-460 after a yield, at clock t: the generator
\* finishes or begins the next batch.
Resumed(w, t) ==
    LET logged == [w EXCEPT !.previous = [start |-> w.start, end |-> w.end,
                                          lastTimestamp |-> w.lastTimestamp,
                                          now |-> t]]
    IN  IF isFinished(w, t)
        THEN [logged EXCEPT !.pc = "done"]
        ELSE BeginBatch(logged, NextStart(w))

\* The batches of one call that are followed; a call that repeats a batch
\* for ever is followed up to here.
MaxBatches == 6

\* The first next() on the generator: lines 448-460.
FetchStart ==
    /\ wf.pc = "start"
    /\ wf' = BeginBatch(wf, wf.start)
    /\ UNCHANGED <<now, storm_ts, driver, calculator, rest_vars, loop_vars, udp_vars,
                   probe>>

\* One call of requests.get and the code up to the next call, the yield
\* or the exception: lines 473-524.
FetchRequest ==
    /\ wf.pc = "request"
    /\ \E response \in Responses(wf) : wf' = AfterResponse(wf, response)
    /\ UNCHANGED <<now, storm_ts, driver, calculator, rest_vars, loop_vars, udp_vars,
                   probe>>

\* The caller asks for the next batch: lines 525-528 and 449-460.  The log
\* keeps the batch that was yielded and the clock the test read.
FetchResume ==
    /\ wf.pc = "yielded"
    /\ wf.batches < MaxBatches
    /\ wf' = Resumed(wf, now)
    /\ UNCHANGED <<now, storm_ts, driver, calculator, rest_vars, loop_vars, udp_vars,
                   probe>>

\* The devices handed to readDataFromWF.
FetchDevices ==
    {<<"ST-00000025", "AR-00004424">>, <<"HB-00000001", "ST-00000025">>,
     <<"HB-00000001">>}

\* What the service stores: per device the timestamps of its observations.
StoredObservations(st, ar) ==
    [device \in {"ST-00000025", "AR-00004424", "HB-00000001"} |->
        CASE device = "ST-00000025" -> st
          [] device = "AR-00004424" -> ar
          [] OTHER -> {}]

Stored ==
    {StoredObservations(st, ar) : st \in {{}, {1, 2}, {1, 3}}, ar \in {{}, {1, 2}}}

BatchSizes == {2, 3}

\* The stop argument: None, or a bound.
Stops == {None, 2}

MinExpected == {0, 1, 2}

MaxRetries == {0, 1}

\* The call readDataFromWF(1, stop, token, devices, ...) before the first
\* next().
FetchCall(stop, devices, batch_size, min_expected_observation_count, max_retry_count, stored) ==
    [pc |-> "start", start |-> 1, stop |-> stop, devices |-> devices,
     batch_size |-> batch_size,
     min_expected_observation_count |-> min_expected_observation_count,
     max_retry_count |-> max_retry_count, stored |-> stored,
     end |-> None, lastTimestamp |-> None, results |-> << >>,
     timestamps |-> NoTimestamps, device |-> 0, retry |-> 0,
     observation_count |-> None, combinedResult |-> Null, raised |-> "none",
     batches |-> 0, attempts |-> << >>, previous |-> Null]

InitFetch ==
    /\ now = NowStart
    /\ storm_ts = 0
    /\ driver = DriverInit(3, 2)
    /\ calculator = << >>
    /\ ConvertIdle
    /\ LoopIdle
    /\ UdpIdle
    /\ probe = NoProbe
    /\ \E stop \in Stops, devices \in FetchDevices, batch_size \in BatchSizes,
          min \in MinExpected, max \in MaxRetries, stored \in Stored :
           wf = FetchCall(stop, devices, batch_size, min, max, stored)

NextFetch == FetchStart \/ FetchRequest \/ FetchResume \/ Tick

SpecFetch == InitFetch /\ [][NextFetch]_vars

\* The batch has ended with a yield or with an exception.
BatchEnded == wf.pc \in {"yielded", "raised"}

\* Every call of requests.get of the batch was answered, and with no
\* observation.
AllZero ==
    /\ wf.attempts # << >>
    /\ \A i \in 1..Len(wf.attempts) :
           wf.attempts[i].kind = "json" /\ wf.attempts[i].count = 0

\* The devices that answered with the expected number of observations.
Succeeded ==
    {d \in 1..Len(wf.devices) :
        \E i \in 1..Len(wf.attempts) :
            /\ wf.attempts[i].device = d
            /\ wf.attempts[i].kind = "json"
            /\ wf.attempts[i].count >= wf.min_expected_observation_count}

\* The REST ids of the devices that succeeded, in the order of devices.
SucceededIds ==
    LET order == Sorted(Succeeded)
    IN  [k \in 1..Len(order) |-> device_dict(wf.devices[order[k]])]

\* A device succeeded: IncompleteDataException is not raised, and a batch
\* that is yielded holds the devices that succeeded.
PartialFailureTolerated ==
    /\ wf.pc = "raised" /\ wf.raised = "IncompleteDataException" => Succeeded = {}
    /\ wf.pc = "yielded" =>
           Succeeded # {} /\ wf.combinedResult.device_ids = SucceededIds

\* C21 as stated: a batch in which every device returns zero observations
\* raises IncompleteDataException, whatever min_expected_observation_count
\* is; a batch in which a device succeeds does not raise it and is
\* yielded with the devices that succeeded.
C21_ZeroObservationsRaise ==
    /\ BatchEnded /\ AllZero =>
           wf.pc = "raised" /\ wf.raised = "IncompleteDataException"
    /\ PartialFailureTolerated

\* C21 amended: with min_expected_observation_count >= 1 a batch in which
\* every device returns zero observations raises IncompleteDataException;
\* with min_expected_observation_count = 0 such a batch is yielded empty
\* when obs is null and ends in IndexError when obs is an empty list; a
\* batch in which a device succeeds does not raise
\* IncompleteDataException, and when it is yielded it holds the devices
\* that succeeded.
C21_ZeroObservationsRaiseIfExpected ==
    /\ BatchEnded /\ AllZero /\ wf.min_expected_observation_count >= 1 =>
           wf.pc = "raised" /\ wf.raised = "IncompleteDataException"
    /\ BatchEnded /\ AllZero /\ wf.min_expected_observation_count = 0 =>
           \/ wf.pc = "yielded" /\ wf.combinedResult.obs = << >>
           \/ wf.pc = "raised" /\ wf.raised = "IndexError"
    /\ PartialFailureTolerated

\* Two devices were asked, each returned zero observations on every
\* attempt, and the batch raised IncompleteDataException.
C21_Witness ==
    /\ wf.pc = "raised"
    /\ wf.raised = "IncompleteDataException"
    /\ AllZero
    /\ {wf.attempts[i].device : i \in 1..Len(wf.attempts)} = {1, 2}

\* The timestamps of the observations in a row of a combined batch.
RowTimes(row) == {row[i][1] : i \in {j \in 1..Len(row) : row[j] # NoObs}}

\* C22: in every combined batch that is yielded the rows are in strictly
\* ascending timestamp order, each row has one slot per device of
\* device_ids, every observation a device returned is in the slot of its
\* device in the row of its timestamp, and a slot is None only when the
\* device returned no observation at the row's timestamp.
C22_EveryObservationInItsSlot ==
    wf.pc = "yielded" =>
        LET rows == wf.combinedResult.obs
            results == wf.results
        IN  /\ \A k \in 1..Len(rows) :
                   /\ Len(rows[k]) = Len(wf.combinedResult.device_ids)
                   /\ Cardinality(RowTimes(rows[k])) = 1
            /\ \A k \in 1..(Len(rows) - 1) :
                   \A t \in RowTimes(rows[k]), u \in RowTimes(rows[k + 1]) : t < u
            /\ \A i \in 1..Len(results) :
                   /\ wf.combinedResult.device_ids[i] = results[i].device_id
                   /\ \A t \in DOMAIN results[i].obs :
                          \E k \in 1..Len(rows) : rows[k][i] = results[i].obs[t]
                   /\ \A k \in 1..Len(rows) :
                          rows[k][i] = NoObs =>
                              RowTimes(rows[k]) \cap DOMAIN results[i].obs = {}

\* C23: after a batch is yielded the next batch starts at
\* lastTimestamp + 1 when the batch found observations and at end + 1
\* when it found none, so that the next batch starts after the last
\* second the batch before it covered.
C23_NextStartAfterBatch ==
    wf.previous # Null /\ wf.pc # "done" =>
        wf.start = IF wf.previous.lastTimestamp # None
                   THEN wf.previous.lastTimestamp + 1
                   ELSE wf.previous.end + 1

\* The test after the yield found the batch's end past the clock, and past
\* the stop bound the caller gave.
PassedNow == wf.previous.end > wf.previous.now

StopGiven == wf.stop # None /\ wf.stop # 0

PassedStop == StopGiven /\ wf.previous.end > wf.stop

\* C24 as stated: the generator finishes only after a batch whose end has
\* passed both the clock and the stop bound (when one is given), and goes
\* on after a batch whose end is at or before either of the two.
C24_StopsAfterBoth ==
    /\ wf.pc = "done" => PassedNow /\ (StopGiven => PassedStop)
    /\ wf.previous # Null /\ wf.pc # "done" =>
           ~(PassedNow /\ (StopGiven => PassedStop))

\* C24 amended: the generator finishes after the first batch whose end
\* has passed the clock or the stop bound (when one is given), and until
\* an exception ends it goes on after every batch whose end is at or
\* before both.
C24_StopsAfterEither ==
    /\ wf.pc = "done" => PassedNow \/ PassedStop
    /\ wf.previous # Null /\ wf.pc # "done" => ~PassedNow /\ ~PassedStop

\* The generator finished after a second batch whose end had passed the
\* stop bound but not the clock.
C24_Witness ==
    /\ wf.pc = "done"
    /\ wf.batches = 2
    /\ PassedStop
    /\ ~PassedNow

\* The calls of requests.get of the batch for device d that ended as kind.
AttemptsOf(d, kind) ==
    {i \in 1..Len(wf.attempts) :
        wf.attempts[i].device = d /\ wf.attempts[i].kind = kind}

\* The devices of the batch that were given up as incomplete.
GivenUp ==
    {d \in 1..Len(wf.devices) :
        /\ AttemptsOf(d, "json") # {}
        /\ \A i \in AttemptsOf(d, "json") :
               wf.attempts[i].count < wf.min_expected_observation_count
        /\ \/ d < wf.device
           \/ wf.pc = "yielded"
           \/ wf.pc = "raised" /\ wf.raised = "IncompleteDataException"}

\* C25: connection failures and below-minimum answers have separate retry
\* budgets: a device is given up as incomplete only after
\* max_retry_count + 1 below-minimum answers, however many connection
\* failures there were, and ConnectionError leaves the generator only
\* after max_retry_count + 1 connection failures for the device, however
\* many below-minimum answers there were.
C25_SeparateRetryBudgets ==
    /\ \A d \in GivenUp :
           Cardinality(AttemptsOf(d, "json")) = wf.max_retry_count + 1
    /\ wf.pc = "raised" /\ wf.raised = "ConnectionError" =>
           Cardinality(AttemptsOf(wf.device, "ConnectionError"))
               = wf.max_retry_count + 1

\* ------------------------------------------------------------------
\* BatteryModeCalculator: a fresh calculator is fed a series of battery
\* readings and asked for the mode in between.  probe holds the readings
\* still to come (feed), the readings supplied so far, and the getMode
\* calls made since the last addVoltage.

\* Readings of one series.
MaxFeed == 12

\* getMode calls between two addVoltage calls.
MaxCalls == 2

\* A series that starts at base and rises by d1 and d2 in turn; voltages
\* in thousandths of a volt.
Feed(base, d1, d2) ==
    [i \in 1..MaxFeed |->
        base + ((i - 1) \div 2) * (d1 + d2) + (IF (i - 1) % 2 = 1 THEN d1 ELSE 0)]

\* The series with its k-th reading replaced.
WithReading(feed, k, value) == [i \in 1..Len(feed) |-> IF i = k THEN value ELSE feed[i]]

\* Changes from one reading to the next.
Steps == {-3, 0, 1, 3}

\* First readings: they put the mean of the newest five readings on, just
\* below and just above each threshold of getMode.
Bases == {2354, 2355, 2356, 2388, 2389, 2390, 2391, 2415, 2416, 2433, 2434}

\* Ten readings whose newest five sum to exactly 0.05 V more than the
\* oldest five.
MarginFeeds == {SubSeq(Feed(base, 2, 2), 1, 10) : base \in {2389, 2392}}

\* The series fed to the calculator: regular ones, ones on the margin of
\* the direction test, and ones in which a reading is missing (None) or
\* is 0.  The source compares sums of binary floating-point numbers, and
\* on a sum that lies exactly on a threshold the rounding of the sum
\* decides the comparison; these are series on which the source and the
\* decimal arithmetic used here give the same direction and mode after
\* every reading.
Feeds ==
    {Feed(base, d1, d2) : base \in Bases, d1 \in Steps, d2 \in Steps}
    \cup MarginFeeds
    \cup {WithReading(Feed(base, d, d), k, value) :
              base \in {2390}, d \in {-3, 3}, k \in {1, 6, MaxFeed - 1},
              value \in {None, 0}}

\* calculator.addVoltage(value) with the next reading of the series.
AddVoltage ==
    /\ probe.kind = "battery"
    /\ probe.feed # << >>
    /\ calculator' = addVoltage(calculator, Head(probe.feed))
    /\ probe' = [probe EXCEPT !.feed = Tail(@),
                              !.supplied = Append(@, Head(probe.feed)),
                              !.calls = << >>]
    /\ UNCHANGED <<now, storm_ts, driver, rest_vars, loop_vars, udp_vars, wf>>

\* A getMode that takes the oldest reading off the list; C27 does not hold
\* for it.
GetModePop ==
    /\ probe.kind = "battery"
    /\ Len(probe.calls) < MaxCalls
    /\ probe' = [probe EXCEPT !.calls =
                     Append(@, [before |-> calculator,
                                charging |-> isCharging(calculator),
                                mode |-> getMode(calculator)])]
    /\ calculator' = IF calculator = << >> THEN << >> ELSE Tail(calculator)
    /\ UNCHANGED <<now, storm_ts, driver, rest_vars, loop_vars, udp_vars, wf>>

\* calculator.getMode(): the list before the call, the direction
\* __isCharging() gave and the mode returned.
GetMode ==
    /\ probe.kind = "battery"
    /\ Len(probe.calls) < MaxCalls
    /\ probe' = [probe EXCEPT !.calls =
                     Append(@, [before |-> calculator,
                                charging |-> isCharging(calculator),
                                mode |-> getMode(calculator)])]
    /\ UNCHANGED calculator
    /\ UNCHANGED <<now, storm_ts, driver, rest_vars, loop_vars, udp_vars, wf>>

InitBattery ==
    /\ now = ReportTime
    /\ storm_ts = 0
    /\ driver = DriverInit(60, 15)
    /\ calculator = << >>
    /\ ConvertIdle
    /\ LoopIdle
    /\ UdpIdle
    /\ FetchIdle
    /\ \E feed \in Feeds :
           probe = [kind |-> "battery", feed |-> feed, supplied |-> << >>,
                    calls |-> << >>]

NextBattery == AddVoltage \/ GetMode

SpecBattery == InitBattery /\ [][NextBattery]_vars

\* The newest n members of a series, in arrival order.
Newest(s, n) == IF Len(s) <= n THEN s ELSE SubSeq(s, Len(s) - n + 1, Len(s))

\* The readings of a series that are not None.
NonNull(s) == SelectSeq(s, LAMBDA v : v # None)

\* C26: after any series of addVoltage calls the list is at most 10 long
\* and holds, in arrival order, the newest min(10, k) of the k readings
\* that were not None: None leaves the list unchanged and every other
\* reading, 0 included, is appended.
C26_TenNewestNonNull ==
    probe.kind = "battery" =>
        /\ Len(calculator) <= 10
        /\ calculator = Newest(NonNull(probe.supplied), 10)

\* The readings that addVoltage accepted.
Accepted(s) == SelectSeq(s, LAMBDA v : v # None /\ v # 0)

\* C27: getMode leaves the list unchanged and returns None or an integer
\* in 0..3; it returns None exactly when no reading has been accepted,
\* and two calls with no addVoltage in between return the same value.
C27_GetModeIsPure ==
    probe.kind = "battery" =>
        \A i \in 1..Len(probe.calls) :
            /\ probe.calls[i].before = calculator
            /\ probe.calls[i].mode \in {None, 0, 1, 2, 3}
            /\ probe.calls[i].mode = None <=> Accepted(probe.supplied) = << >>
            /\ probe.calls[i].mode = probe.calls[1].mode

\* getMode was called twice on a list of accepted readings and returned a
\* mode.
C27_Witness ==
    /\ probe.kind = "battery"
    /\ Len(probe.calls) = 2
    /\ Accepted(probe.supplied) # << >>
    /\ probe.calls[2].mode \in 0..3

\* Series of readings that rise, or fall, from each reading to the next.
StrictlyAscending(s) == \A i \in 1..(Len(s) - 1) : s[i] < s[i + 1]

StrictlyDescending(s) == \A i \in 1..(Len(s) - 1) : s[i] > s[i + 1]

\* Ten readings were fed to the fresh calculator and getMode was called.
TenFed == probe.kind = "battery" /\ Len(probe.supplied) = 10 /\ probe.calls # << >>

\* C28 as stated: after any ten strictly ascending voltages the
\* classifier is in the charging direction, after any ten strictly
\* descending voltages in the discharging direction.
C28_AscendingCharges ==
    TenFed /\ (\A i \in 1..10 : probe.supplied[i] # None) =>
        /\ StrictlyAscending(probe.supplied) => probe.calls[1].charging
        /\ StrictlyDescending(probe.supplied) => ~probe.calls[1].charging

\* The sum of the newest five of ten readings less the sum of the oldest
\* five.
Rise(s) == SumSeq(SubSeq(s, 6, 10)) - SumSeq(SubSeq(s, 1, 5))

\* C28 amended: after ten strictly ascending non-zero voltages the
\* classifier is in the charging direction when the newest five sum to
\* more than 0.05 V above the oldest five, which is so whenever every
\* voltage is more than 0.002 V above the one before it, and in the
\* discharging direction when they sum to less than 0.05 V above them;
\* after ten strictly descending non-zero voltages it is in the
\* discharging direction.
C28_SteepAscentCharges ==
    TenFed /\ Accepted(probe.supplied) = probe.supplied =>
        /\ (\A i \in 1..9 : probe.supplied[i + 1] - probe.supplied[i] > 2) =>
               probe.calls[1].charging
        /\ StrictlyAscending(probe.supplied) =>
               /\ Rise(probe.supplied) > 50 => probe.calls[1].charging
               /\ Rise(probe.supplied) < 50 => ~probe.calls[1].charging
        /\ StrictlyDescending(probe.supplied) => ~probe.calls[1].charging

\* Ten voltages, each 0.003 V above the one before it, were fed and the
\* classifier is in the charging direction.
C28_Witness ==
    /\ TenFed
    /\ \A i \in 1..9 : probe.supplied[i + 1] - probe.supplied[i] = 3
    /\ probe.calls[1].charging

\* The thresholds of the two directions, applied to the sum of k readings
\* in place of their mean.
ChargingMode(sum, k) ==
    IF sum >= 2455 * k THEN 0
    ELSE IF sum >= 2410 * k THEN 1
    ELSE IF sum >= 2375 * k THEN 2
    ELSE 3

DischargingMode(sum, k) ==
    IF sum <= 2355 * k THEN 3
    ELSE IF sum <= 2390 * k THEN 2
    ELSE IF sum <= 2415 * k THEN 1
    ELSE 0

RECURSIVE FedList(_, _)
FedList(feed, k) ==
    IF k = 0 THEN << >> ELSE addVoltage(FedList(feed, k - 1), feed[k])

\* First readings of the series: those of Bases and two low ones, so that
\* a rising series reaches every row of the charging table.
ModeBases == Bases \cup {2332, 2333}

\* Lists of 2, 5 and 10 readings that are level, rising or falling.
ModeLists ==
    {FedList(Feed(base, d, d), k) : base \in ModeBases, d \in {-3, 0, 3}, k \in {2, 5, 10}}

\* getMode() on both calculators.
CompareModes ==
    /\ probe.kind = "lists"
    /\ probe' = [kind |-> "modes",
                 a |-> [list |-> probe.a, charging |-> isCharging(probe.a),
                        mode |-> getMode(probe.a)],
                 b |-> [list |-> probe.b, charging |-> isCharging(probe.b),
                        mode |-> getMode(probe.b)]]
    /\ UNCHANGED <<now, storm_ts, driver, calculator, rest_vars, loop_vars, udp_vars, wf>>

InitModes ==
    /\ now = ReportTime
    /\ storm_ts = 0
    /\ driver = DriverInit(60, 15)
    /\ calculator = << >>
    /\ ConvertIdle
    /\ LoopIdle
    /\ UdpIdle
    /\ FetchIdle
    /\ \E a \in ModeLists, b \in ModeLists : probe = [kind |-> "lists", a |-> a, b |-> b]

NextModes == CompareModes

SpecModes == InitModes /\ [][NextModes]_vars

\* The mean of the newest five readings of list a is below that of list b.
MeanBelow(a, b) ==
    SumSeq(Newest(a, 5)) * Len(Newest(b, 5)) < SumSeq(Newest(b, 5)) * Len(Newest(a, 5))

\* C29: within one charge direction the mode is monotonically
\* non-increasing in the mean of the newest five readings: of two lists
\* in the same direction the one with the higher mean never has the
\* higher mode.
C29_ModeMonotoneInMean ==
    probe.kind = "modes" /\ probe.a.charging = probe.b.charging
        /\ MeanBelow(probe.a.list, probe.b.list)
    => probe.b.mode <= probe.a.mode

\* Two lists in the charging direction with different means got
\* different modes.
C29_Witness ==
    /\ probe.kind = "modes"
    /\ probe.a.charging
    /\ probe.b.charging
    /\ MeanBelow(probe.a.list, probe.b.list)
    /\ probe.b.mode < probe.a.mode

\* ------------------------------------------------------------------
\* readDataFromWF with the smallest batch sizes.

\* batch_size of the configuration (line 724): any integer; 1 and 2 here.
SmallBatchSizes == {1, 2}

InitProgress ==
    /\ now = NowStart
    /\ storm_ts = 0
    /\ driver = DriverInit(3, 2)
    /\ calculator = << >>
    /\ ConvertIdle
    /\ LoopIdle
    /\ UdpIdle
    /\ probe = NoProbe
    /\ \E stop \in Stops, devices \in FetchDevices, batch_size \in SmallBatchSizes,
          min \in {0, 1}, stored \in Stored :
           wf = FetchCall(stop, devices, batch_size, min, 0, stored)

SpecProgress == InitProgress /\ [][NextFetch]_vars

\* C34: readDataFromWF always makes progress: between two consecutive
\* batches of one call the start timestamp strictly increases, for every
\* batch_size >= 1 and also after a batch without observations.
C34_StartStrictlyIncreases ==
    wf.previous # Null /\ wf.pc # "done" => wf.start > wf.previous.start

\* The calls of requests.get of the batch for device d.
RequestsOf(d) == {i \in 1..Len(wf.attempts) : wf.attempts[i].device = d}

\* The devices of the batch for which max_retry_count + 1 calls were
\* made, each one answered below the minimum or not connected.
Exhausted ==
    {d \in 1..Len(wf.devices) :
        /\ Cardinality(RequestsOf(d)) = wf.max_retry_count + 1
        /\ \A i \in RequestsOf(d) :
               \/ wf.attempts[i].kind = "ConnectionError"
               \/ /\ wf.attempts[i].kind = "json"
                  /\ wf.attempts[i].count < wf.min_expected_observation_count}

\* How the last call for device d ended.
LastKind(d) == wf.attempts[Maximum(RequestsOf(d))].kind

\* The devices after d that are not hubs.
Remaining(d) ==
    {e \in (d + 1)..Len(wf.devices) : device_type_dict(wf.devices[e]) # "HB"}

\* Device d was given up with an IncompleteDataException that was caught:
\* the loop went on to the next device, or, after the last device, to the
\* end of the batch.
Absorbed(d) ==
    /\ wf.pc = "raised" /\ wf.device = d => wf.raised = "IncompleteDataException"
    /\ Remaining(d) # {} => wf.device >= Minimum(Remaining(d))

\* C35 as stated: for each device of a batch at most max_retry_count + 1
\* calls of requests.get are made, answered or not; a device whose
\* observation count is still below the minimum after them fails with
\* IncompleteDataException, which is caught, and the remaining devices
\* are still queried.
C35_ExhaustedIsIncomplete ==
    wf.pc # "idle" /\ wf.pc # "start" =>
        /\ \A d \in 1..Len(wf.devices) :
               Cardinality(RequestsOf(d)) <= wf.max_retry_count + 1
        /\ \A d \in Exhausted : Absorbed(d)

\* C35 amended: for each device of a batch at most max_retry_count + 1
\* calls of requests.get are made, answered or not; when the last of them
\* is answered below the minimum the device fails with
\* IncompleteDataException, which is caught, and the remaining devices
\* are still queried; when the last of them is a connection failure,
\* ConnectionError leaves the generator and no further device is queried.
C35_LastAttemptDecides ==
    wf.pc # "idle" /\ wf.pc # "start" =>
        /\ \A d \in 1..Len(wf.devices) :
               Cardinality(RequestsOf(d)) <= wf.max_retry_count + 1
        /\ \A d \in Exhausted :
               /\ LastKind(d) = "json" => Absorbed(d)
               /\ LastKind(d) = "ConnectionError" =>
                      /\ wf.pc = "raised"
                      /\ wf.raised = "ConnectionError"
                      /\ wf.device = d
                      /\ \A e \in Remaining(d) : RequestsOf(e) = {}

\* With max_retry_count = 1 the first device was asked twice, a
\* connection failure and then an answer below the minimum, was given up,
\* and the second device is being asked.
C35_Witness ==
    /\ wf.pc = "request"
    /\ wf.max_retry_count = 1
    /\ wf.device = 2
    /\ 1 \in Exhausted
    /\ wf.attempts[1].kind = "ConnectionError"
    /\ LastKind(1) = "json"

\* The answers of the batch that held observations.
WithObservations ==
    {i \in 1..Len(wf.attempts) :
        wf.attempts[i].kind = "json" /\ wf.attempts[i].count > 0}

\* The answers of the batch that held observations and were accepted: the
\* count was not below min_expected_observation_count.
AcceptedWithObservations ==
    {i \in WithObservations :
        wf.attempts[i].count >= wf.min_expected_observation_count}

\* lastTimestamp is None while none of the answers in first has come; the
\* earliest answer in first sets it to its newest timestamp, it stays at
\* that for the rest of the batch, the requests up to that answer end at
\* the batch's end and every later request of the batch ends at
\* lastTimestamp.
LockedBy(first) ==
    IF first = {}
    THEN /\ wf.lastTimestamp = None
         /\ \A i \in 1..Len(wf.attempts) : wf.attempts[i].time_end = wf.end
    ELSE /\ wf.lastTimestamp = wf.attempts[Minimum(first)].newest
         /\ \A i \in 1..Len(wf.attempts) :
                wf.attempts[i].time_end =
                    IF i <= Minimum(first) THEN wf.end ELSE wf.lastTimestamp

\* C36 as stated: within one batch lastTimestamp is set once, by the
\* first device response that contains observations, to the largest
\* timestamp in that response; it is not changed afterwards in the batch,
\* every later request of the batch uses it as time_end, and it is reset
\* when the next batch starts.
C36_LockedByFirstWithObservations ==
    wf.pc \in {"request", "yielded", "raised", "done"} => LockedBy(WithObservations)

\* C36 amended: within one batch lastTimestamp is set once, by the first
\* device response that is accepted (its observation count is not below
\* min_expected_observation_count) and contains observations, to the
\* largest timestamp in that response; a response with fewer observations
\* than the minimum does not set it.  It is not changed afterwards in the
\* batch, every later request of the batch uses it as time_end, and it is
\* reset when the next batch starts.
C36_LockedByFirstAccepted ==
    wf.pc \in {"request", "yielded", "raised", "done"} =>
        LockedBy(AcceptedWithObservations)

\* In a second batch the first device's answer set lastTimestamp below
\* the batch's end and the second device was asked up to lastTimestamp;
\* the batch before had its own lastTimestamp.
C36_Witness ==
    /\ wf.pc \in {"yielded", "request"}
    /\ wf.previous # Null
    /\ wf.previous.lastTimestamp # None
    /\ Len(wf.attempts) >= 2
    /\ wf.lastTimestamp # None
    /\ wf.lastTimestamp < wf.end
    /\ wf.lastTimestamp # wf.previous.lastTimestamp
    /\ wf.attempts[Len(wf.attempts)].time_end = wf.lastTimestamp

\* ------------------------------------------------------------------
\* Conservation of records in convertREST2weewx.

\* The strike count a record carries, 0 when it carries none.
StrikesOf(record) ==
    IF "lightning_strike_count" \in DOMAIN record
          /\ record["lightning_strike_count"] # None
    THEN record["lightning_strike_count"]
    ELSE 0

\* The strikes of a sequence of records.
SumStrikes(recs) == SumSeq([k \in 1..Len(recs) |-> StrikesOf(recs[k])])

\* The records an accumulator holds, none for no accumulator.
RecsOf(acc) == IF acc = Null THEN << >> ELSE acc.recs

\* The records accumulated into windows that are still open or closed
\* and not yet yielded.
PendingRecs ==
    IF rest_pc = "done" \/ archivePeriod = Null
    THEN << >>
    ELSE RecsOf(archivePeriod.old_accumulator) \o archivePeriod.accumulator.recs

\* The number of records that are in a yielded record or pending.
HeldCount ==
    SumSeq([i \in 1..Len(yielded_recs) |-> Len(yielded_recs[i])]) + Len(PendingRecs)

\* Every yielded record carries the strikes of the records of its window,
\* every record of the open window lies in the window aligned to its
\* timestamp, no closed window is left unyielded between two rows, and at
\* the end the open window has been yielded.
WindowsAccounted ==
    /\ \A i \in 1..Len(yielded) :
           StrikesOf(yielded[i]) = SumStrikes(yielded_recs[i])
    /\ archivePeriod # Null =>
           /\ \A k \in 1..Len(archivePeriod.accumulator.recs) :
                  startOfInterval(archivePeriod.accumulator.recs[k]["dateTime"],
                                  driver.archive_interval)
                      = archivePeriod.accumulator.start
           /\ RecsOf(archivePeriod.old_accumulator) = << >>
           /\ rest_pc = "done" =>
                  yielded_recs[Len(yielded_recs)] = archivePeriod.accumulator.recs

\* A step of the call keeps every record that is held, and a step that
\* accepts a record adds that one record to the open window.
RecordKept ==
    /\ rest_pc \in {"loop", "done"}
    /\ HeldCount' >= HeldCount
    /\ \A i \in 1..Len(yielded_recs) :
           i <= Len(yielded_recs') /\ yielded_recs'[i] = yielded_recs[i]
    /\ last_call' # last_call /\ last_call'.method = "getPreviousRecord" =>
           /\ HeldCount' = HeldCount + 1
           /\ Len(archivePeriod'.accumulator.recs) > 0
    /\ last_call' = last_call \/ last_call'.method # "getPreviousRecord" =>
           HeldCount' = HeldCount

\* C32: convertREST2weewx conserves records: every accepted record is
\* accumulated into exactly one window, the one aligned to its timestamp,
\* and every window that holds a record is yielded before the generator
\* ends, so that in any input order the strike counts of the yielded
\* records add up to those of the accepted records.
C32_RecordsConserved ==
    /\ [](rest_pc \in {"loop", "done"} => WindowsAccounted)
    /\ [][RecordKept]_vars

\* Three records came out of order, the window moved back, three archive
\* records were yielded and together they carry the strikes of the three
\* records, more than one.
C32_Witness ==
    /\ rest_pc = "done"
    /\ Len(yielded) = 3
    /\ HeldCount = 3
    /\ \E i \in 1..Len(windows) : windows[i].start < windows[i].prev_start
    /\ SumSeq([i \in 1..Len(yielded) |-> StrikesOf(yielded[i])]) > 1

\* ------------------------------------------------------------------
\* The global weatherflowArchiveAccum at the yields of convertREST2weewx.

\* C37: whenever convertREST2weewx yields an archive record, the global
\* weatherflowArchiveAccum is the accumulator the record was extracted
\* from: the accumulator just closed for a window closed by a roll, the
\* current accumulator for the flush at the end of the input; it is never
\* empty at a yield.
C37_SlotHoldsYieldedAccumulator ==
    /\ last_call.method = "getPreviousRecord" /\ last_call.record # Null =>
           /\ weatherflowArchiveAccum # Null
           /\ weatherflowArchiveAccum = last_call.before.old_accumulator
    /\ last_call.method = "getRecord" =>
           /\ weatherflowArchiveAccum # Null
           /\ weatherflowArchiveAccum = last_call.before.accumulator

\* ------------------------------------------------------------------
\* genStartupRecords (lines 860-868): every batch readDataFromWF yields
\* is handed to a convertREST2weewx call of its own; yielded keeps the
\* archive records of all the calls.

\* The rows of the batch as the service sends them: the Tempest's slot
\* holds the observation of the row's time.
StartupRow(k) ==
    [i \in 1..Len(wf.combinedResult.obs[k]) |->
        IF wf.combinedResult.obs[k][i] = NoObs
        THEN NoObs
        ELSE Observed(wf.combinedResult.obs[k][i][1])]

\* Line 867: convertREST2weewx(packet) is called for the batch.
StartupConvert ==
    /\ wf.pc = "yielded"
    /\ rest_pc = "idle"
    /\ rest_pc' = "loop"
    /\ rows_left' = Len(wf.combinedResult.obs)
    /\ archivePeriod' = Null
    /\ lightningPerTimestampArray' = << >>
    /\ windows' = << >>
    /\ last_call' = NoCall
    /\ UNCHANGED <<now, storm_ts, driver, calculator, yielded, yielded_recs,
                   weatherflowArchiveAccum, loop_vars, udp_vars, wf, probe>>

\* The next row of the batch goes through the loop of convertREST2weewx.
StartupRowNext ==
    /\ wf.pc = "yielded"
    /\ rest_pc = "loop"
    /\ rows_left > 0
    /\ ConvertRow(StartupRow(Len(wf.combinedResult.obs) - rows_left + 1))

\* The batch is converted; line 866 asks readDataFromWF for the next one.
StartupResume ==
    /\ wf.pc = "yielded"
    /\ rest_pc = "done"
    /\ wf.batches < MaxBatches
    /\ wf' = Resumed(wf, now)
    /\ rest_pc' = "idle"
    /\ UNCHANGED <<now, storm_ts, driver, calculator, rows_left, archivePeriod,
                   lightningPerTimestampArray, yielded, yielded_recs, windows,
                   last_call, weatherflowArchiveAccum, loop_vars, udp_vars, probe>>

\* What the service stores for the Tempest in the startup runs.
StartupStored ==
    {StoredObservations(st, {}) : st \in {{}, {1, 3}, {2, 4}, {1, 2, 3}, {1, 2, 3, 4}}}

\* Line 866: readDataFromWF(since_ts + 1, None, ..., self._batch_size,
\* self._request_timeout, 0, 0) with since_ts = 0.
InitStartup ==
    /\ now = NowStart
    /\ storm_ts \in 1..MaxNow
    /\ driver = DriverInit(3, 2)
    /\ calculator = << >>
    /\ ConvertIdle
    /\ LoopIdle
    /\ UdpIdle
    /\ probe = NoProbe
    /\ \E devices \in {<<"ST-00000025">>, <<"HB-00000001", "ST-00000025">>},
          batch_size \in BatchSizes, stored \in StartupStored :
           wf = FetchCall(None, devices, batch_size, 0, 0, stored)

NextStartup ==
    \/ FetchStart
    \/ FetchRequest
    \/ StartupConvert
    \/ StartupRowNext
    \/ ConvertEnd
    \/ StartupResume
    \/ Tick

SpecStartup == InitStartup /\ [][NextStartup]_vars

\* C33: genStartupRecords never yields two archive records with the same
\* dateTime: when the boundary between two consecutive batches falls
\* inside an archive window, the records of that window from both batches
\* end up in one yielded record.
C33_OneRecordPerWindowAcrossBatches ==
    \A i, j \in 1..Len(yielded) :
        i < j => yielded[i]["dateTime"] # yielded[j]["dateTime"]

\* ------------------------------------------------------------------
\* genLoopPackets and convertREST2weewx on one driver: both hand
\* self._calculator to their parser (lines 752 and 808).

\* The Tempest observations both pipelines deliver: those of the times
\* UninitializedEpoch + 1 .. UninitializedEpoch + MaxShared.
MaxShared == 3

\* The battery voltage the Tempest measured at time ts, thousandths of a
\* volt: it rises by a thousandth a second, so that a reading tells the
\* time it was taken.
BatteryAt(ts) == 2600 + (ts - UninitializedEpoch)

\* The observation of time ts, the same over UDP and over REST.
SharedObs(ts) == [Observed(ts) EXCEPT ![17] = BatteryAt(ts)]

\* The obs_st datagram of the observation of time ts.
SharedDatagram(ts) ==
    << <<"serial_number", "ST-00000025">>, <<"type", "obs_st">>,
       <<"hub_sn", "HB-12345678">>, <<"obs", << SharedObs(ts) >> >>,
       <<"firmware_revision", 134>> >>

\* The time of the datagram genLoopPackets handled last, 0 before the first.
LastDatagramTime ==
    IF loop_last.outcome \in {"none", "raised"} THEN 0 ELSE loop_last.time_epoch

\* genLoopPackets handles the datagram of a later observation.
SharedLoop ==
    \E ts \in (UninitializedEpoch + 1)..(UninitializedEpoch + MaxShared) :
        /\ ts > LastDatagramTime
        /\ LoopPacket(SharedDatagram(ts))

\* convertREST2weewx handles the next row of a batch that holds the
\* observations in the order of their times.
SharedRest ==
    /\ rows_left > 0
    /\ ConvertRow(<<SharedObs(UninitializedEpoch + MaxShared - rows_left + 1)>>)

InitShared ==
    /\ now = UninitializedEpoch + MaxShared
    /\ storm_ts \in {0, UninitializedEpoch + 2}
    /\ \E i \in ArchiveIntervals, d \in LoopDelays : driver = DriverInit(i, d)
    /\ calculator = << >>
    /\ ConvertStart(MaxShared)
    /\ loop_pc = "loop"
    /\ last_loop_timestamp = 0
    /\ loop_last = [outcome |-> "none"]
    /\ UdpIdle
    /\ FetchIdle
    /\ probe = NoProbe

NextShared == SharedLoop \/ SharedRest \/ ConvertEnd

SpecShared == InitShared /\ [][NextShared]_vars

\* C38: the calculator of a driver has a single writer: under any
\* interleaving of genLoopPackets and convertREST2weewx on the driver each
\* battery observation enters the voltage list at most once, and the list
\* holds the samples in the order of their observation times.
C38_EachObservationOnceInOrder ==
    \A i, j \in 1..Len(calculator) : i < j => calculator[i] < calculator[j]

\* ------------------------------------------------------------------
\* WeatherflowCloudDataService.new_archive_record (lines 1063-1122).
\* probe holds the call: the service's configuration, event.record before
\* the call and as it is now, the handler's position and how it ended.

\* Lines 1116-1122: which except clause of the handler takes an exception.
ExceptClause(exception) ==
    IF exception = "Timeout" THEN "except Timeout"
    ELSE IF exception = "IncompleteDataException"
    THEN "except IncompleteDataException"
    ELSE "except"

\* Lines 1072-1076: the time the handler sleeps before it asks the service.
SleepTime(archive_datetime, service, t) ==
    LET sleep_time == (archive_datetime + service.weatherflow_data_delay) - t
    IN  IF sleep_time > service.maximum_sleep_time
        THEN service.maximum_sleep_time
        ELSE IF sleep_time > 0 THEN sleep_time ELSE 0

\* Lines 1077-1079: no sleep is due and the record is older than
\* max_loop_archive_delay.
TooLate(archive_datetime, service, t) ==
    /\ (archive_datetime + service.weatherflow_data_delay) - t <= 0
    /\ archive_datetime + service.max_loop_archive_delay < t

\* A call whose stop is the record's dateTime.
EnhanceFetchCallToRecord(record, service, devices, stored) ==
    [FetchCall(record["dateTime"], devices, driver.archive_interval,
               driver.archive_interval \div 60, service.max_retry_count, stored)
        EXCEPT !.start = record["dateTime"] - driver.archive_interval + 1]

\* Line 1082: the readDataFromWF call for the record's interval.
EnhanceFetchCall(record, service, devices, stored) ==
    [FetchCall(record["dateTime"] - 1, devices, driver.archive_interval,
               driver.archive_interval \div 60, service.max_retry_count, stored)
        EXCEPT !.start = record["dateTime"] - driver.archive_interval + 1]

\* "weatherflow_record[enhanced_reading] is None": the count is None, or
\* the mean has no value.
ReadingIsNone(weatherflow_record, reading) ==
    IF reading = "lightning_strike_count"
    THEN weatherflow_record[reading] = None
    ELSE weatherflow_record[reading] = NoAvg

\* Lines 1088-1091.
EnhanceLightning(weatherflow_record, service) ==
    ~ /\ "lightning_strike_count" \in DOMAIN weatherflow_record
      /\ weatherflow_record["lightning_strike_count"] = 0
      /\ service.trust_sensor_lightning_detections

\* Lines 1094-1103 for one enhanced reading.
EnhanceReading(record, weatherflow_record, reading, enhance_lightning) ==
    IF /\ reading \in DOMAIN weatherflow_record
       /\ reading \in DOMAIN record
       /\ record[reading] # weatherflow_record[reading]
       /\ \/ reading \notin {"lightning_strike_count", "lightning_distance"}
          \/ enhance_lightning
    THEN IF ReadingIsNone(weatherflow_record, reading)
         THEN [k \in (DOMAIN record) \ {reading} |-> record[k]]
         ELSE [record EXCEPT ![reading] = weatherflow_record[reading]]
    ELSE record

\* Lines 1093-1105: the loop over the first n enhanced readings.
RECURSIVE EnhanceReadings(_, _, _, _, _)
EnhanceReadings(record, weatherflow_record, readings, n, enhance_lightning) ==
    IF n = 0
    THEN record
    ELSE EnhanceReading(EnhanceReadings(record, weatherflow_record, readings, n - 1,
                                        enhance_lightning),
                        weatherflow_record, readings[n], enhance_lightning)

\* Lines 1106-1108.  convertREST2weewx stores the key as a JSON string, so
\* the value is never None, and the test of line 1113 never deletes it.
EnhanceLightningPerTimestamp(record, weatherflow_record, enhance_lightning) ==
    IF enhance_lightning /\ "lightningPerTimestamp" \in DOMAIN weatherflow_record
    THEN Put(record, "lightningPerTimestamp", weatherflow_record["lightningPerTimestamp"])
    ELSE record

\* Lines 1084-1109 for the record that matches event.record's dateTime.
Enhanced(record, weatherflow_record, service) ==
    EnhanceLightningPerTimestamp(
        EnhanceReadings(record, weatherflow_record, service.enhanced_readings,
                        Len(service.enhanced_readings),
                        EnhanceLightning(weatherflow_record, service)),
        weatherflow_record, EnhanceLightning(weatherflow_record, service))

\* The records of the batch that carry event.record's dateTime.
Matching(record, records) ==
    {i \in 1..Len(records) : records[i]["dateTime"] = record["dateTime"]}

\* Lines 1083-1111 over the records convertREST2weewx yielded for the
\* batch: the first with event.record's dateTime enhances it, and the
\* break of line 1109 leaves the rest of the batch alone.  The services
\* bound to WeatherflowEnhancement (line 1085) are weewx's own; they are
\* taken in the configuration that leaves the record as it is.
EnhancedByBatch(record, records, service) ==
    IF Matching(record, records) = {}
    THEN record
    ELSE Enhanced(record, records[Minimum(Matching(record, records))], service)

\* The handler returns.
Returned(p, outcome) == [p EXCEPT !.pc = "returned", !.outcome = outcome]

\* Lines 1068-1082: the call up to the first request.
EnhanceBegin ==
    /\ probe.kind = "enhance"
    /\ probe.pc = "call"
    /\ IF Len(probe.service.enhanced_readings) = 0
       THEN /\ probe' = Returned(probe, "no enhanced_readings")
            /\ UNCHANGED <<now, wf>>
       ELSE IF TooLate(probe.record["dateTime"], probe.service, now)
       THEN /\ probe' = Returned(probe, "not an archive entry based on API data")
            /\ UNCHANGED <<now, wf>>
       ELSE /\ now' = now + SleepTime(probe.record["dateTime"], probe.service, now)
            /\ wf' = EnhanceFetchCall(probe.record, probe.service, probe.devices,
                                      probe.stored)
            /\ probe' = [probe EXCEPT !.pc = "fetch"]
    /\ UNCHANGED <<storm_ts, driver, calculator, rest_vars, loop_vars, udp_vars>>

\* readDataFromWF raised: one of the except clauses of lines 1116-1122
\* takes the exception and the handler returns.
EnhanceFailed ==
    /\ probe.kind = "enhance"
    /\ probe.pc = "fetch"
    /\ wf.pc = "raised"
    /\ probe' = [Returned(probe, wf.raised) EXCEPT
                    !.handled_by = ExceptClause(wf.raised)]
    /\ UNCHANGED <<now, storm_ts, driver, calculator, rest_vars, loop_vars, udp_vars, wf>>

\* The batch is converted: lines 1084-1111 for its records, then the
\* generator is asked for the next batch.  An exception convertREST2weewx
\* raised reaches the handler unless a record matched before it.  After
\* the last batch line 1113 reads weatherflow_record, a name that is
\* unbound when no record was yielded.
EnhanceApply ==
    /\ probe.kind = "enhance"
    /\ probe.pc = "fetch"
    /\ wf.pc = "yielded"
    /\ rest_pc \in {"done", "raised"}
    /\ wf.batches < MaxBatches
    /\ IF rest_pc = "raised" /\ Matching(probe.record, yielded) = {}
       THEN /\ probe' = [Returned(probe, "TypeError") EXCEPT
                            !.handled_by = ExceptClause("TypeError")]
            /\ wf' = wf
       ELSE /\ wf' = Resumed(wf, now)
            /\ \E applied \in {[probe EXCEPT !.record =
                                    EnhancedByBatch(@, yielded, probe.service)]} :
                   probe' = IF wf'.pc = "raised"
                            THEN [Returned(applied, wf'.raised) EXCEPT
                                     !.handled_by = ExceptClause(wf'.raised)]
                            ELSE IF wf'.pc = "done"
                            THEN IF Len(yielded) = 0
                                 THEN [Returned(applied, "NameError") EXCEPT
                                          !.handled_by = ExceptClause("NameError")]
                                 ELSE Returned(applied, "enhanced")
                            ELSE applied
    /\ rest_pc' = "idle"
    /\ UNCHANGED <<now, storm_ts, driver, calculator, rows_left, archivePeriod,
                   lightningPerTimestampArray, yielded, yielded_recs, windows,
                   last_call, weatherflowArchiveAccum, loop_vars, udp_vars>>

\* The service's configuration (lines 1049-1055).
Service(enhanced_readings, max_retry_count, trust) ==
    [enhanced_readings |-> enhanced_readings,
     weatherflow_data_delay |-> 40,
     maximum_sleep_time |-> 40,
     max_loop_archive_delay |-> driver.archive_interval - 1,
     max_retry_count |-> max_retry_count,
     trust_sensor_lightning_detections |-> trust]

\* event.record of the archive interval that ends at 60: the temperature,
\* the wind direction and the strike count the loop packets gave.
EventRecord(outTemp, strikes) ==
    [dateTime |-> 60, usUnits |-> 17, outTemp |-> outTemp,
     windDir |-> [wsum |-> 90, sumtime |-> 1],
     lightning_strike_count |-> strikes]

EventRecords ==
    {EventRecord(outTemp, strikes) :
        outTemp \in {[wsum |-> 24000, sumtime |-> 1], [wsum |-> 18500, sumtime |-> 1]},
        strikes \in {0, 2}}

\* The clock at the call: the record is fresh, 40 seconds old, or old.
EnhanceClocks == {61, 100, 200}

InitEnhance ==
    /\ now \in EnhanceClocks
    /\ storm_ts \in {0, 100}
    /\ driver = DriverInit(60, 15)
    /\ calculator = << >>
    /\ ConvertIdle
    /\ LoopIdle
    /\ UdpIdle
    /\ FetchIdle
    /\ \E enhanced_readings \in {<< >>, <<"outTemp", "windDir", "lightning_strike_count">>},
          max_retry_count \in MaxRetries, trust \in BOOLEAN,
          devices \in {<<"HB-00000001", "ST-00000025">>, <<"HB-00000001">>},
          st \in {{}, {50}, {60}, {50, 60}}, record \in EventRecords :
           probe = [kind |-> "enhance", pc |-> "call",
                    service |-> Service(enhanced_readings, max_retry_count, trust),
                    devices |-> devices, stored |-> StoredObservations(st, {}),
                    before |-> record, record |-> record,
                    outcome |-> "none", handled_by |-> "none"]

NextEnhance ==
    \/ EnhanceBegin
    \/ FetchStart
    \/ FetchRequest
    \/ StartupConvert
    \/ StartupRowNext
    \/ ConvertEnd
    \/ EnhanceApply
    \/ EnhanceFailed

SpecEnhance == InitEnhance /\ [][NextEnhance]_vars

\* The exceptions readDataFromWF, convertREST2weewx and the handler's
\* own code raise.
Exceptions ==
    {"Timeout", "IncompleteDataException", "ConnectionError", "DriverException",
     "IndexError", "TypeError", "NameError"}

\* The except clauses of lines 1116-1122.
ExceptClauses == {"except Timeout", "except IncompleteDataException", "except"}

\* The failures of the REST fetch.
FetchFailures ==
    {"Timeout", "IncompleteDataException", "ConnectionError", "DriverException",
     "IndexError"}

\* C31: new_archive_record never lets an exception out: every exception
\* raised during the call is taken by one of the handler's except clauses.
\* When the REST fetch fails (IncompleteDataException, a timeout,
\* exhausted connection retries or any other exception of readDataFromWF)
\* event.record is exactly what it was before the call.
C31_FetchFailureLeavesRecord ==
    probe.kind = "enhance" /\ probe.pc = "returned" =>
        /\ probe.outcome \in Exceptions => probe.handled_by \in ExceptClauses
        /\ probe.outcome \in FetchFailures => probe.record = probe.before

\* The fetch of a fresh record ran out of retries with too few
\* observations and the handler returned.
C31_Witness ==
    /\ probe.kind = "enhance"
    /\ probe.pc = "returned"
    /\ probe.outcome = "IncompleteDataException"
    /\ probe.handled_by = "except IncompleteDataException"
    /\ Len(wf.attempts) = probe.service.max_retry_count + 1
    /\ probe.service.max_retry_count = 1

====
